---- MODULE Spec2Model ----
(***************************************************************************)
(* PacePilot web client: the derived-metrics computations of the activity  *)
(* detail page (splits, smoothed pace series, heart-rate zone seconds,     *)
(* chart rows), the weekly aggregation and the insights of                 *)
(* lib/analytics.ts, the token handling of lib/api.ts, and the AI call     *)
(* pipeline of the backend.                                                *)
(*                                                                         *)
(* The derived metrics are pure functions of the fetched data.  Their      *)
(* specifications draw the inputs in the initial state and then run the    *)
(* function; loops are run one iteration per step.                         *)
(***************************************************************************)
EXTENDS Integers, Sequences, FiniteSets, TLC

VARIABLES
    \* ---- the fetched activity (useQuery "activity"), shared by the callbacks ----
    distances,      \* data.streams.distance || []
    times,          \* data.streams.time || []
    movingTimeS,    \* Number(data.moving_time_s || 0)
    \* ---- splits (activity-detail-page.tsx, useMemo "splits") ----
    actType,        \* data.type, a string as a sequence of characters
    rawSplits,      \* data.raw_payload.splits_metric || []
    splitsPc,       \* "idle" | "start" | "loop" | "done"
    splitsI,        \* loop variable i (0-based, as in the source)
    splitIndex,
    prevTime,
    splitsOut,      \* the value the callback returns (out / rawSplits / [])
    \* ---- smoothed pace (activity-detail-page.tsx, useMemo "hrPaceSeries") ----
    distanceM,      \* Number(data.distance_m || 0)
    pacePc,         \* "idle" | "start" | "loop" | "done"
    paceI,          \* loop variable i (0-based)
    startIdx,
    fallbackPace,   \* hundredths of s/km
    emaPace,        \* hundredths of s/km
    paceOut,        \* rows {t, pace}, pace in tenths of s/km (toFixed(1))
    \* ---- heart-rate zone seconds (activity-detail-page.tsx, zoneData) ----
    zoneRaw,        \* data.derived_metrics.hr_zone_distribution || {}
    zonePc,         \* "idle" | "start" | "done"
    zoneData,       \* zone key -> seconds
    \* ---- weekly aggregation (lib/analytics.ts) ----
    activities,     \* sequence of Activity records
    now,            \* Date.now() / new Date(), as a day number
    lookbackDays,   \* groupByWeek's parameter days
    weekPc,         \* "idle" | "start" | "loop" | "done"
    filtered,
    weekI,          \* position of the for-of loop in filtered (0-based)
    byWeek,         \* week key -> accumulated record
    weeksOut,       \* the list groupByWeek returns
    sportPc,        \* "idle" | "start" | "done"
    sportOut,       \* the record weeklyDistanceBySport returns
    \* ---- insights (lib/analytics.ts, buildInsights) ----
    insightPc,      \* "idle" | "start" | "done"
    insights,       \* the record buildInsights returns
    \* ---- chart rows (activity-detail-page.tsx, useMemo "chartData") ----
    heartrate,      \* data.streams.heartrate || []
    altitude,       \* data.streams.altitude || []
    chartPc,        \* "idle" | "start" | "done"
    chartData,      \* the rows {x, t, hr, alt}
    \* ---- API client (lib/api.ts) ----
    accessToken,    \* module variable accessToken; 0 is the empty string
    refreshToken,   \* module variable refreshToken; 0 is the empty string
    lsAccess,       \* localStorage['pacepilot.access']; 0 is absent
    lsRefresh,      \* localStorage['pacepilot.refresh']; 0 is absent
    refreshing,     \* module variable refreshing: <<>> is null, <<t>> the
                    \* pending POST /auth/refresh made with refresh token t
    requests,       \* the calls made through `api`, in the order of the calls
    issued,         \* tokens the server has issued so far
    refreshPosts,   \* the POST /auth/refresh calls that have not settled
    \* ---- AI call pipeline (backend) ----
    aiRuns,         \* the pipeline invocations, by run id
    aiCache,        \* cache store: key -> answer
    aiLog,          \* the AIInteraction records, in order of creation
    \* ---- heart-rate zones of the profile page (profile-page.tsx) ----
    hrZones,        \* form.hr_zones || []
    zoneDraft,      \* state zoneDraft
    editZones,      \* state editZones
    zoneEdits,      \* changes typed into the zone inputs so far
    zoneTxt,        \* the labels txt of the last render, one per zone drawn
    \* ---- AI chat page (ai-page.tsx) ----
    askStatus,      \* the ask mutation: "idle" | "pending" | "success" | "error"
    pendingQuestion,
    liveTarget,
    liveTyped,
    queriesStale,   \* the session and message queries were invalidated since
                    \* the last ask
    activeSessionId, \* state activeSessionId; 0 is null
    asks,           \* questions asked so far
    \* ---- the pace label (lib/analytics.ts, pacePerKm and formatPace) ----
    labelDistanceM, \* argument distanceM of pacePerKm
    labelMovingTimeS, \* argument movingTimeS of pacePerKm
    labelPc,        \* "idle" | "start" | "done"
    paceLabel,      \* the string formatPace returns
    \* ---- next automatic plan generation (plan-page.tsx) ----
    timeZone,       \* the time zone of the browser
    nowTick,        \* state nowTick, an instant
    generationDay,  \* goal.weekly_plan_generation_day; <<>> is undefined
    generationHour, \* goal.weekly_plan_generation_hour
    planPc,         \* "idle" | "start" | "done"
    nextAutoGeneration,     \* the instant the useMemo returns
    autoGenerationCountdown, \* deltaMs of the countdown
    \* ---- the week by day (lib/analytics.ts, groupActivitiesByDay) ----
    utcOffset,      \* hours the local time is ahead of UTC
    today,          \* the instant getWeekRange is called at
    weekActivities, \* argument activities
    byDayPc,        \* "idle" | "start" | "done"
    weekRange,      \* the range getWeekRange returns
    byDay           \* the map groupActivitiesByDay returns

dataVars   == <<distances, times, movingTimeS>>
splitsVars == <<actType, rawSplits, splitsPc, splitsI, splitIndex, prevTime, splitsOut>>
paceVars   == <<distanceM, pacePc, paceI, startIdx, fallbackPace, emaPace, paceOut>>

zoneVars   == <<zoneRaw, zonePc, zoneData>>
weekVars   == <<activities, now, lookbackDays, weekPc, filtered, weekI, byWeek,
                weeksOut, sportPc, sportOut>>

insightVars == <<insightPc, insights>>
chartVars  == <<heartrate, altitude, chartPc, chartData>>
apiVars    == <<accessToken, refreshToken, lsAccess, lsRefresh, refreshing,
                requests, issued, refreshPosts>>
aiVars     == <<aiRuns, aiCache, aiLog>>
profileVars == <<hrZones, zoneDraft, editZones, zoneEdits, zoneTxt>>

\* the state of the pages and helpers modelled further down
aiPageVars == <<askStatus, pendingQuestion, liveTarget, liveTyped,
                queriesStale, activeSessionId, asks>>
labelVars  == <<labelDistanceM, labelMovingTimeS, labelPc, paceLabel>>
planVars   == <<timeZone, nowTick, generationDay, generationHour, planPc,
                nextAutoGeneration, autoGenerationCountdown>>
byDayVars  == <<utcOffset, today, weekActivities, byDayPc, weekRange, byDay>>
pageVars   == <<profileVars, aiPageVars, labelVars, planVars, byDayVars>>

vars == <<dataVars, splitsVars, paceVars, zoneVars, weekVars, insightVars,
          chartVars, apiVars, aiVars, pageVars>>

\* what each callback leaves alone
notSplits == <<movingTimeS, paceVars, zoneVars, weekVars, insightVars, chartVars,
               apiVars, aiVars,
               pageVars>>
notPace   == <<splitsVars, zoneVars, weekVars, insightVars, chartVars, apiVars,
               aiVars,
               pageVars>>
notZone   == <<distances, times, splitsVars, paceVars, weekVars, insightVars,
               chartVars, apiVars, aiVars,
               pageVars>>
notWeek   == <<dataVars, splitsVars, paceVars, zoneVars, insightVars, chartVars,
               apiVars, aiVars,
               pageVars>>
notInsight == <<dataVars, splitsVars, paceVars, zoneVars, weekVars, chartVars,
                apiVars, aiVars,
               pageVars>>
notChart  == <<splitsVars, paceVars, zoneVars, weekVars, insightVars, apiVars,
               aiVars,
               pageVars>>
notApi    == <<dataVars, splitsVars, paceVars, zoneVars, weekVars, insightVars,
               chartVars, aiVars,
               pageVars>>
notAi     == <<dataVars, splitsVars, paceVars, zoneVars, weekVars, insightVars,
               chartVars, apiVars,
               pageVars>>

-----------------------------------------------------------------------------
(* Bounds of the model *)

\* longest generated distance / time stream
MaxLen == 3

-----------------------------------------------------------------------------
(* Strings: a string is a sequence of one-character strings *)

UpperChars == <<"A","B","C","D","E","F","G","H","I","J","K","L","M",
                "N","O","P","Q","R","S","T","U","V","W","X","Y","Z">>
LowerChars == <<"a","b","c","d","e","f","g","h","i","j","k","l","m",
                "n","o","p","q","r","s","t","u","v","w","x","y","z">>

\* String.prototype.toLowerCase on one character
LowerChar(c) ==
    IF \E k \in 1..26 : UpperChars[k] = c
    THEN LowerChars[CHOOSE k \in 1..26 : UpperChars[k] = c]
    ELSE c

\* String.prototype.toLowerCase
ToLowerCase(s) == [k \in 1..Len(s) |-> LowerChar(s[k])]

\* String.prototype.includes
Includes(s, sub) ==
    \E off \in 0..(Len(s) - Len(sub)) :
        \A k \in 1..Len(sub) : s[off + k] = sub[k]

StrRun      == <<"R","u","n">>
StrRide     == <<"R","i","d","e">>
StrSwim     == <<"S","w","i","m">>
StrSWIM     == <<"S","W","I","M">>
StrOpenSwim == <<"O","p","e","n","W","a","t","e","r","S","w","i","m">>
StrEmpty    == <<>>

-----------------------------------------------------------------------------
(* Generated inputs *)

\* non-decreasing sequences over S of length 0..n
NonDecreasing(S, n) ==
    UNION { { s \in [1..m -> S] : \A k \in 1..(m - 1) : s[k] <= s[k + 1] }
            : m \in 0..n }

DistVals == {0, 80, 100, 250, 1000, 2100}
TimeVals == {0, 30, 60, 300}

SplitTypes == {StrRun, StrSwim, StrSWIM, StrOpenSwim, StrEmpty}

\* provider splits are carried through as opaque records
ProviderSplits ==
    { <<>>,
      << [split |-> 1, distance |-> 1003, elapsed_time |-> 290] >>,
      << [split |-> 1, distance |-> 1003, elapsed_time |-> 290],
         [split |-> 2, distance |-> 998, elapsed_time |-> 305] >> }

\* the scenario of the specification's section 8
ScenarioDistances == <<0, 250, 500, 750, 1000, 1250>>
ScenarioTimes     == <<0, 60, 120, 180, 240, 300>>

-----------------------------------------------------------------------------
(* splits *)

IsSwimCaseSensitive(type) == Includes(type, <<"s","w","i","m">>)

\* const isSwim = String(data?.type || '').toLowerCase().includes('swim')
IsSwim(type) == Includes(ToLowerCase(type), <<"s","w","i","m">>)

\* const splitMeters = isSwim ? 100 : 1000
SplitMeters(type) == IF IsSwim(type) THEN 100 ELSE 1000

UseProviderSplitsMoreThanOne(raw) == Len(raw) > 1

\* if (rawSplits.length) return rawSplits
UseProviderSplits(raw) == Len(raw) > 0

\* if (!distances.length || !times.length || distances.length !== times.length) return []
NoStreams(ds, ts) == Len(ds) = 0 \/ Len(ts) = 0 \/ Len(ds) # Len(ts)

ReachedEnteringQuantum(d, k, q) == d > (k - 1) * q

\* if (distances[i] >= splitIndex * splitMeters)
Reached(d, k, q) == d >= k * q

\* the callback is not part of the run
SplitsIdle ==
    /\ actType = StrEmpty
    /\ rawSplits = <<>>
    /\ splitsPc = "idle"
    /\ splitsI = 0
    /\ splitIndex = 1
    /\ prevTime = 0
    /\ splitsOut = <<>>

PaceIdle ==
    /\ distanceM = 0
    /\ pacePc = "idle"
    /\ paceI = 0
    /\ startIdx = 0
    /\ fallbackPace = 0
    /\ emaPace = 0
    /\ paceOut = <<>>

ZoneIdle ==
    /\ zoneRaw = <<>>
    /\ zonePc = "idle"
    /\ zoneData = <<>>

WeekIdle ==
    /\ activities = <<>>
    /\ now = 0
    /\ lookbackDays = 0
    /\ weekPc = "idle"
    /\ filtered = <<>>
    /\ weekI = 0
    /\ byWeek = <<>>
    /\ weeksOut = <<>>
    /\ sportPc = "idle"
    /\ sportOut = <<>>

InsightIdle ==
    /\ insightPc = "idle"
    /\ insights = <<>>

ChartIdle ==
    /\ heartrate = <<>>
    /\ altitude = <<>>
    /\ chartPc = "idle"
    /\ chartData = <<>>

ApiIdle ==
    /\ accessToken = 0
    /\ refreshToken = 0
    /\ lsAccess = 0
    /\ lsRefresh = 0
    /\ refreshing = <<>>
    /\ requests = <<>>
    /\ issued = 0
    /\ refreshPosts = 0

AiIdle ==
    /\ aiRuns = <<>>
    /\ aiCache = <<>>
    /\ aiLog = <<>>

ProfileIdle ==
    /\ hrZones = <<>>
    /\ zoneDraft = <<>>
    /\ editZones = FALSE
    /\ zoneEdits = 0
    /\ zoneTxt = <<>>

AiPageIdle ==
    /\ askStatus = "idle"
    /\ pendingQuestion = <<>>
    /\ liveTarget = <<>>
    /\ liveTyped = <<>>
    /\ queriesStale = FALSE
    /\ activeSessionId = 0
    /\ asks = 0

LabelIdle ==
    /\ labelDistanceM = 0
    /\ labelMovingTimeS = 0
    /\ labelPc = "idle"
    /\ paceLabel = <<>>

PlanIdle ==
    /\ timeZone = "utc"
    /\ nowTick = 0
    /\ generationDay = <<>>
    /\ generationHour = 0
    /\ planPc = "idle"
    /\ nextAutoGeneration = 0
    /\ autoGenerationCountdown = 0

ByDayIdle ==
    /\ utcOffset = 0
    /\ today = 0
    /\ weekActivities = <<>>
    /\ byDayPc = "idle"
    /\ weekRange = <<>>
    /\ byDay = <<>>

\* no page is mounted
PagesIdle == ProfileIdle /\ AiPageIdle /\ LabelIdle /\ PlanIdle /\ ByDayIdle

\* the insights, the chart rows, the API client, the AI pipeline and the
\* pages are not part of the run
OthersIdle == InsightIdle /\ ChartIdle /\ ApiIdle /\ AiIdle /\ PagesIdle

InitSplits ==
    /\ actType \in SplitTypes
    /\ rawSplits \in ProviderSplits
    /\ \/ /\ distances \in NonDecreasing(DistVals, MaxLen)
          /\ times \in NonDecreasing(TimeVals, MaxLen)
       \/ /\ distances = ScenarioDistances
          /\ times = ScenarioTimes
    /\ splitsPc = "start"
    /\ splitsI = 0
    /\ splitIndex = 1
    /\ prevTime = 0
    /\ splitsOut = <<>>
    /\ movingTimeS = 0
    /\ PaceIdle
    /\ ZoneIdle
    /\ WeekIdle
    /\ OthersIdle

\* lines 267-268: provider splits are returned as they are
SplitsFromProvider ==
    /\ splitsPc = "start"
    /\ UseProviderSplits(rawSplits)
    /\ splitsOut' = rawSplits
    /\ splitsPc' = "done"
    /\ UNCHANGED notSplits
    /\ UNCHANGED <<actType, rawSplits, distances, times, splitsI, splitIndex, prevTime>>

\* lines 269-271: no usable stream pair
SplitsNoStreams ==
    /\ splitsPc = "start"
    /\ ~UseProviderSplits(rawSplits)
    /\ NoStreams(distances, times)
    /\ splitsOut' = <<>>
    /\ splitsPc' = "done"
    /\ UNCHANGED notSplits
    /\ UNCHANGED <<actType, rawSplits, distances, times, splitsI, splitIndex, prevTime>>

\* lines 272-276: out = [], splitIndex = 1, prevTime = 0, i = 0
SplitsEnterLoop ==
    /\ splitsPc = "start"
    /\ ~UseProviderSplits(rawSplits)
    /\ ~NoStreams(distances, times)
    /\ splitsOut' = <<>>
    /\ splitIndex' = 1
    /\ prevTime' = 0
    /\ splitsI' = 0
    /\ splitsPc' = "loop"
    /\ UNCHANGED notSplits
    /\ UNCHANGED <<actType, rawSplits, distances, times>>

\* lines 276-283: one iteration of the for loop
SplitsIterate ==
    /\ splitsPc = "loop"
    /\ splitsI < Len(distances)
    /\ IF Reached(distances[splitsI + 1], splitIndex, SplitMeters(actType))
       THEN LET t == times[splitsI + 1]
            IN /\ splitsOut' = Append(splitsOut,
                                      [split |-> splitIndex,
                                       distance |-> SplitMeters(actType),
                                       elapsed_time |-> t - prevTime])
               /\ prevTime' = t
               /\ splitIndex' = splitIndex + 1
       ELSE UNCHANGED <<splitsOut, prevTime, splitIndex>>
    /\ splitsI' = splitsI + 1
    /\ UNCHANGED notSplits
    /\ UNCHANGED <<actType, rawSplits, distances, times, splitsPc>>

\* line 284: return out
SplitsReturn ==
    /\ splitsPc = "loop"
    /\ splitsI >= Len(distances)
    /\ splitsPc' = "done"
    /\ UNCHANGED notSplits
    /\ UNCHANGED <<actType, rawSplits, distances, times, splitsI, splitIndex,
                   prevTime, splitsOut>>

NextSplits ==
    \/ SplitsFromProvider
    \/ SplitsNoStreams
    \/ SplitsEnterLoop
    \/ SplitsIterate
    \/ SplitsReturn

SpecSplits == InitSplits /\ [][NextSplits]_vars

-----------------------------------------------------------------------------
(* Properties of splits *)

\* the type strings of SplitTypes that contain "swim" in any letter case
SwimTypes == {StrSwim, StrSWIM, StrOpenSwim}

\* the quantum the specification configures for the activity
ConfiguredQuantum == IF actType \in SwimTypes THEN 100 ELSE 1000

\* no provider splits, and a distance/time pair of equal length >= 2
StreamsUsable ==
    /\ Len(rawSplits) = 0
    /\ Len(distances) = Len(times)
    /\ Len(distances) >= 2

\* C1: with no provider splits and distance/time streams of equal length >= 2,
\* the computed splits have strictly increasing index values and every
\* split's distance field is the configured quantum (100 m for a type that
\* contains "swim" in any letter case, 1000 m otherwise).
C1_SplitsIncreasingWithQuantum ==
    StreamsUsable =>
        /\ \A k \in 1..(Len(splitsOut) - 1) :
               splitsOut[k].split < splitsOut[k + 1].split
        /\ \A k \in 1..Len(splitsOut) :
               splitsOut[k].distance = ConfiguredQuantum

C1_Witness ==
    /\ splitsPc = "done"
    /\ StreamsUsable
    /\ actType = StrSWIM
    /\ Len(splitsOut) >= 2

\* the first sample (1-based) at which the cumulative distance reaches k * q
FirstReached(k, q) ==
    CHOOSE j \in 1..Len(distances) :
        /\ distances[j] >= k * q
        /\ \A m \in 1..(j - 1) : distances[m] < k * q

\* C2: a split is emitted for every boundary k * quantum the cumulative
\* distance reaches, also when one sample passes several boundaries; split k
\* lasts from the sample that first reached boundary k - 1 (time 0 for k = 1)
\* to the sample that first reached boundary k; so the number of splits is
\* floor(final distance / quantum).
C2_SplitPerBoundaryReached ==
    (splitsPc = "done" /\ StreamsUsable) =>
        LET q == ConfiguredQuantum
            n == distances[Len(distances)] \div q
        IN /\ Len(splitsOut) = n
           /\ \A k \in 1..n :
                  k <= Len(splitsOut) =>
                      splitsOut[k].elapsed_time =
                          times[FirstReached(k, q)]
                          - (IF k = 1 THEN 0 ELSE times[FirstReached(k - 1, q)])

\* C3: no split is emitted whose boundary k * quantum lies beyond the last
\* distance sample (a trailing segment shorter than one quantum is dropped);
\* distance [0,250,500,750,1000,1250], time [0,60,120,180,240,300], type Run
\* gives exactly the split {1, 1000, 240}.
C3_TrailingPartDropped ==
    Len(rawSplits) = 0 =>
        /\ \A k \in 1..Len(splitsOut) :
               splitsOut[k].split * ConfiguredQuantum <= distances[Len(distances)]
        /\ ( /\ splitsPc = "done"
             /\ distances = ScenarioDistances
             /\ times = ScenarioTimes
             /\ actType = StrRun )
           => splitsOut = << [split |-> 1, distance |-> 1000, elapsed_time |-> 240] >>

C3_Witness ==
    /\ splitsPc = "done"
    /\ Len(rawSplits) = 0
    /\ distances = ScenarioDistances
    /\ times = ScenarioTimes
    /\ actType = StrRun
    /\ Len(splitsOut) = 1

\* C4: with no provider splits, streams of fewer than 2 samples or of
\* different lengths give zero splits, also a single sample whose distance is
\* at or beyond the quantum.
C4_ShortStreamsGiveNoSplit ==
    ( /\ splitsPc = "done"
      /\ Len(rawSplits) = 0
      /\ (Len(distances) < 2 \/ Len(times) < 2 \/ Len(distances) # Len(times)) )
    => splitsOut = <<>>

\* C5: a non-empty provider splits list is returned unchanged and the walk
\* over the streams is never entered, whatever the streams hold.
C5_ProviderSplitsAuthoritative ==
    Len(rawSplits) > 0 =>
        /\ splitsPc # "loop"
        /\ splitsI = 0 /\ splitIndex = 1 /\ prevTime = 0
        /\ splitsPc = "done" => splitsOut = rawSplits

C5_Witness ==
    /\ splitsPc = "done"
    /\ Len(rawSplits) = 1
    /\ distances = ScenarioDistances
    /\ times = ScenarioTimes
    /\ splitsOut = rawSplits

-----------------------------------------------------------------------------
(* hrPaceSeries: the smoothed pace column                                  *)
(*                                                                         *)
(* Paces are JavaScript doubles in the source.  Here a pace is an integer  *)
(* number of hundredths of a second per km, and every operation rounds     *)
(* down to that resolution; the emitted value is rounded to one decimal    *)
(* (toFixed(1)) and held in tenths.  The heart-rate column and the         *)
(* pace_plot column are computed from the same walk but never feed back    *)
(* into the pace values, and are left out.                                 *)

Max2(a, b) == IF a >= b THEN a ELSE b
Min2(a, b) == IF a <= b THEN a ELSE b

PaceDistVals == {0, 2, 30, 50, 150}
PaceTimeVals == {0, 5, 10, 20, 30}
DistanceMVals == {0, 1000, 3000, 10000}
MovingTimeVals == {0, 600, 900, 3600}

\* const bucketSec = 10
bucketSec == 10

\* analytics.ts pacePerKm, in hundredths of s/km
PacePerKm(dM, mT) ==
    IF dM = 0 \/ mT = 0 THEN 0 ELSE (mT * 1000 * 100) \div dM

\* pacePerKm(...) || 360
FallbackPace(dM, mT) ==
    IF PacePerKm(dM, mT) = 0 THEN 360 * 100 ELSE PacePerKm(dM, mT)

\* const len = Math.min(distance.length, time.length)
PaceLen == Min2(Len(distances), Len(times))

\* const p = dt / (dd / 1000), in hundredths of s/km
BucketPace(dt, dd) == (dt * 1000 * 100) \div dd

\* Number.isFinite(p) && p >= 120 && p <= 1200
PaceAccepted(p) == p >= 120 * 100 /\ p <= 1200 * 100

\* Math.max(emaPace * 0.55, Math.min(emaPace * 1.6, p))
Clamped(ema, p) == Max2((ema * 55) \div 100, Min2((ema * 160) \div 100, p))

\* paceCandidate of lines 220-228; <<>> stands for null
PaceCandidate(ema, dt, dd) ==
    IF dt > 0 /\ dd > 2 /\ PaceAccepted(BucketPace(dt, dd))
    THEN <<Clamped(ema, BucketPace(dt, dd))>>
    ELSE <<>>

BlendedSwapped(ema, cand) == (ema * 18 + cand * 82) \div 100

\* (emaPace * 0.82) + (paceCandidate * 0.18)
Blended(ema, cand) == (ema * 82 + cand * 18) \div 100

\* Number(emaPace.toFixed(1)), in tenths of s/km
ToFixed1(x) == (x + 5) \div 10

InitPace ==
    /\ distances \in NonDecreasing(PaceDistVals, MaxLen)
    /\ times \in NonDecreasing(PaceTimeVals, MaxLen)
    /\ movingTimeS \in MovingTimeVals
    /\ distanceM \in DistanceMVals
    /\ pacePc = "start"
    /\ paceI = 0
    /\ startIdx = 0
    /\ fallbackPace = 0
    /\ emaPace = 0
    /\ paceOut = <<>>
    /\ SplitsIdle
    /\ ZoneIdle
    /\ WeekIdle
    /\ OthersIdle

\* line 208: if (len < 2) return []
PaceTooShort ==
    /\ pacePc = "start"
    /\ PaceLen < 2
    /\ paceOut' = <<>>
    /\ pacePc' = "done"
    /\ UNCHANGED <<distanceM, paceI, startIdx, fallbackPace, emaPace>>
    /\ UNCHANGED <<dataVars, notPace>>

\* lines 209-215: seed the EMA, startIdx = 0, i = 1
PaceEnterLoop ==
    /\ pacePc = "start"
    /\ PaceLen >= 2
    /\ fallbackPace' = FallbackPace(distanceM, movingTimeS)
    /\ emaPace' = FallbackPace(distanceM, movingTimeS)
    /\ paceOut' = <<>>
    /\ startIdx' = 0
    /\ paceI' = 1
    /\ pacePc' = "loop"
    /\ UNCHANGED distanceM
    /\ UNCHANGED <<dataVars, notPace>>

\* lines 216-217: the bucket is still shorter than bucketSec, continue
PaceContinue ==
    /\ pacePc = "loop"
    /\ paceI < PaceLen
    /\ times[paceI + 1] - times[startIdx + 1] < bucketSec
    /\ paceI' = paceI + 1
    /\ UNCHANGED <<distanceM, pacePc, startIdx, fallbackPace, emaPace, paceOut>>
    /\ UNCHANGED <<dataVars, notPace>>

\* lines 218-241: the bucket closes at sample i
PaceCloseBucket ==
    /\ pacePc = "loop"
    /\ paceI < PaceLen
    /\ times[paceI + 1] - times[startIdx + 1] >= bucketSec
    /\ LET dt == times[paceI + 1] - times[startIdx + 1]
           dd == distances[paceI + 1] - distances[startIdx + 1]
           paceCandidate == PaceCandidate(emaPace, dt, dd)
           ema == IF paceCandidate # <<>>
                  THEN Blended(emaPace, paceCandidate[1])
                  ELSE emaPace
       IN /\ emaPace' = ema
          /\ paceOut' = Append(paceOut, [t |-> times[paceI + 1], pace |-> ToFixed1(ema)])
    /\ startIdx' = paceI
    /\ paceI' = paceI + 1
    /\ UNCHANGED <<distanceM, pacePc, fallbackPace>>
    /\ UNCHANGED <<dataVars, notPace>>

\* lines 243-252: return the rows
PaceReturn ==
    /\ pacePc = "loop"
    /\ paceI >= PaceLen
    /\ pacePc' = "done"
    /\ UNCHANGED <<distanceM, paceI, startIdx, fallbackPace, emaPace, paceOut>>
    /\ UNCHANGED <<dataVars, notPace>>

NextPace ==
    \/ PaceTooShort
    \/ PaceEnterLoop
    \/ PaceContinue
    \/ PaceCloseBucket
    \/ PaceReturn

SpecPace == InitPace /\ [][NextPace]_vars

-----------------------------------------------------------------------------
(* Properties of the smoothed pace *)

\* C6: every pace value of the smoothed series lies within [120, 1200] s/km,
\* whatever the streams and the activity summary are.
C6_EmittedPaceInRange ==
    \A k \in 1..Len(paceOut) :
        paceOut[k].pace >= 120 * 10 /\ paceOut[k].pace <= 1200 * 10

\* the bucket pace dt / (dd / 1000) lies in [120, 1200], on exact fractions
BucketPaceInBounds(dt, dd) ==
    /\ dd > 0
    /\ 1000 * dt >= 120 * dd
    /\ 1000 * dt <= 1200 * dd

\* the EMA after a bucket of dt seconds and dd metres, as the claim states it
EmaAfterBucket(ema, dt, dd) ==
    IF BucketPaceInBounds(dt, dd)
    THEN LET p == (100000 * dt) \div dd
             lower == (55 * ema) \div 100
             upper == (160 * ema) \div 100
             c == IF p < lower THEN lower ELSE IF p > upper THEN upper ELSE p
         IN (82 * ema + 18 * c) \div 100
    ELSE ema

\* one step of the pace walk follows the bucket rule: the bucket closes at the
\* first sample at least 10 s after its start, and only then the EMA moves
BucketRule ==
    (pacePc = "loop" /\ paceI < PaceLen) =>
        LET dt == times[paceI + 1] - times[startIdx + 1]
            dd == distances[paceI + 1] - distances[startIdx + 1]
        IN IF dt >= 10
           THEN /\ startIdx' = paceI
                /\ emaPace' = EmaAfterBucket(emaPace, dt, dd)
                /\ Len(paceOut') = Len(paceOut) + 1
           ELSE /\ startIdx' = startIdx
                /\ emaPace' = emaPace
                /\ paceOut' = paceOut

\* the first EMA value, as the claim states it: 360 only for a zero distance
SeedAsClaimed ==
    (pacePc = "loop" /\ paceI = 1) =>
        emaPace = IF distanceM = 0 THEN 360 * 100
                  ELSE (movingTimeS * 100000) \div distanceM

\* the first EMA value: 360 for a zero distance or a zero moving time
SeedAmended ==
    (pacePc = "loop" /\ paceI = 1) =>
        emaPace = IF distanceM = 0 \/ movingTimeS = 0 THEN 360 * 100
                  ELSE (movingTimeS * 100000) \div distanceM

\* C7 (as claimed): every bucket follows the bucket rule, and the first EMA
\* value is moving_time_s / (distance_m / 1000), or 360 when the distance is 0.
C7_EmaRuleSeedAsClaimed == []SeedAsClaimed /\ [][BucketRule]_vars

\* C7 (amended): every bucket follows the bucket rule (an in-bounds bucket
\* pace is clamped to [0.55 ema, 1.6 ema] and blended 0.82 / 0.18, any other
\* leaves the EMA unchanged), and the first EMA value is
\* moving_time_s / (distance_m / 1000), or 360 when the activity distance or
\* the moving time is zero.
C7_EmaRuleSeedAmended == []SeedAmended /\ [][BucketRule]_vars

C7_Witness ==
    /\ pacePc = "done"
    /\ distanceM > 0
    /\ movingTimeS = 0
    /\ Len(paceOut) = 2
    /\ paceOut[1].pace # paceOut[2].pace
    /\ paceOut[1].pace # 360 * 10

-----------------------------------------------------------------------------
(* zoneData: seconds per heart-rate zone *)

ZoneKeys == {"z1", "z2", "z3", "z4", "z5"}

PctVals == {0, 5, 15, 20, 30, 80}
ZoneMovingTimeVals == {0, 10, 59, 3600, 5430}

\* Number(zoneRaw.z1 || 0): an absent key counts as 0
ZonePct(raw, z) == IF z \in DOMAIN raw THEN raw[z] ELSE 0

RoundedDown(n, d) == n \div d

\* Math.round(n / d) for n >= 0, d > 0: halves round up
Rounded(n, d) == (2 * n + d) \div (2 * d)

\* seconds: Math.round((movingTime * Number(zoneRaw.zN || 0)) / 100)
ZoneSeconds(mT, raw, z) == Rounded(mT * ZonePct(raw, z), 100)

InitZones ==
    /\ zoneRaw \in [ZoneKeys -> PctVals] \cup {<<>>}
    /\ movingTimeS \in ZoneMovingTimeVals
    /\ zonePc = "start"
    /\ zoneData = <<>>
    /\ distances = <<>>
    /\ times = <<>>
    /\ SplitsIdle
    /\ PaceIdle
    /\ WeekIdle
    /\ OthersIdle

\* lines 291-297: the five rows of zoneData
ZoneCompute ==
    /\ zonePc = "start"
    /\ zoneData' = [z \in ZoneKeys |-> ZoneSeconds(movingTimeS, zoneRaw, z)]
    /\ zonePc' = "done"
    /\ UNCHANGED <<zoneRaw, movingTimeS>>
    /\ UNCHANGED notZone

NextZones == ZoneCompute

SpecZones == InitZones /\ [][NextZones]_vars

-----------------------------------------------------------------------------
(* Properties of the zone seconds *)

AbsDiff(a, b) == IF a >= b THEN a - b ELSE b - a

ZoneSecondsSum ==
    zoneData["z1"] + zoneData["z2"] + zoneData["z3"] + zoneData["z4"] + zoneData["z5"]

ZonePctSum ==
    ZonePct(zoneRaw, "z1") + ZonePct(zoneRaw, "z2") + ZonePct(zoneRaw, "z3")
    + ZonePct(zoneRaw, "z4") + ZonePct(zoneRaw, "z5")

\* s is moving_time_s * percentage / 100 rounded to the nearest second
IsNearestSecond(s, mT, pct) ==
    /\ 100 * s <= mT * pct + 50
    /\ 100 * s > mT * pct - 50

EachZoneRounded ==
    \A z \in ZoneKeys : IsNearestSecond(zoneData[z], movingTimeS, ZonePct(zoneRaw, z))

ZoneScenario ==
    ( /\ zoneRaw = [z \in ZoneKeys |->
                      CASE z = "z1" -> 20 [] z = "z2" -> 30 [] z = "z3" -> 30
                        [] z = "z4" -> 15 [] z = "z5" -> 5]
      /\ movingTimeS = 3600 )
    => /\ zoneData["z1"] = 720 /\ zoneData["z2"] = 1080 /\ zoneData["z3"] = 1080
       /\ zoneData["z4"] = 540 /\ zoneData["z5"] = 180
       /\ ZoneSecondsSum = 3600

\* C8 (as claimed): for every zone-percentage map and every moving_time_s each
\* zone's seconds is round(moving_time_s * percentage / 100) and the five
\* values sum to moving_time_s within 2 seconds.
C8_ZoneSumWithinTwoAnyMap ==
    zonePc = "done" =>
        /\ EachZoneRounded
        /\ AbsDiff(ZoneSecondsSum, movingTimeS) <= 2
        /\ ZoneScenario

\* C8 (amended): each zone's seconds is round(moving_time_s * percentage / 100),
\* rounded on its own; when the five percentages sum to 100 (and moving_time_s
\* is a whole number of seconds) the five values sum to moving_time_s within
\* 2 seconds; {20,30,30,15,5} with 3600 s gives {720,1080,1080,540,180}.
C8_ZoneSumWithinTwoFullMap ==
    zonePc = "done" =>
        /\ EachZoneRounded
        /\ ZonePctSum = 100 => AbsDiff(ZoneSecondsSum, movingTimeS) <= 2
        /\ ZoneScenario

\* four halves round up and the sum is off by exactly 2
C8_Witness ==
    /\ zonePc = "done"
    /\ ZonePctSum = 100
    /\ AbsDiff(ZoneSecondsSum, movingTimeS) = 2

-----------------------------------------------------------------------------
(* Weekly aggregation: groupByWeek and weeklyDistanceBySport                *)
(*                                                                         *)
(* An instant is a local calendar day, counted from Monday 2023-12-18      *)
(* (day 0); DAY_MS is one unit.  Distances stay in metres (km() only       *)
(* divides by 1000).  The time and load sums of a bucket do not enter the  *)
(* distance columns and are not carried.                                   *)

StrSwimRun == <<"S","w","i","m","R","u","n">>
StrYoga    == <<"Y","o","g","a">>

\* Date.prototype.getFullYear on the modelled days (2023-12-18 .. 2024-02-29)
GetFullYear(d) == IF d <= 13 THEN 2023 ELSE 2024

\* Date.prototype.getDate
GetDate(d) == IF d <= 13 THEN 18 + d ELSE IF d <= 44 THEN d - 13 ELSE d - 44

\* Date.prototype.getDay: 0 is Sunday; day 0 is a Monday
GetDay(d) == (d + 1) % 7

\* Math.ceil(n / 7) for n >= 0
CeilDiv7(n) == (n + 6) \div 7

\* `${dt.getFullYear()}-W${Math.ceil((dt.getDate() + 6 - dt.getDay()) / 7)}`
\* as the pair <<year, number>>
WeekKey(d) == <<GetFullYear(d), CeilDiv7(GetDate(d) + 6 - GetDay(d))>>

\* a.week.localeCompare(b.week) < 0: the year has four digits and the number
\* one, so the strings compare as the pairs do
WeekKeyBefore(a, b) == a[1] < b[1] \/ (a[1] = b[1] /\ a[2] < b[2])

\* startOfWeekMonday
StartOfWeekMonday(d) == d + (IF GetDay(d) = 0 THEN -6 ELSE 1 - GetDay(d))

\* getWeekRange: start and end day of the Monday-start week of d
GetWeekRange(d) == [start |-> StartOfWeekMonday(d), end |-> StartOfWeekMonday(d) + 6]

\* activities.filter((a) => now - new Date(a.start_date).getTime() <= days * DAY_MS)
RECURSIVE Filtered(_, _, _)
Filtered(acts, nowDay, days) ==
    IF acts = <<>> THEN <<>>
    ELSE IF nowDay - Head(acts).start_date <= days
         THEN <<Head(acts)>> \o Filtered(Tail(acts), nowDay, days)
         ELSE Filtered(Tail(acts), nowDay, days)

\* The optional fields suffer_score and avg_hr of an Activity are fields the
\* record has or lacks; a field that is null or undefined is a field the
\* record lacks.
Supplied(a, f) == f \in DOMAIN a

\* the heart rate line 79 divides by two: a.avg_hr || 140
defaultAvgHr == 140
AvgHrOrDefault(a) ==
    IF Supplied(a, "avg_hr") /\ a.avg_hr # 0 THEN a.avg_hr ELSE defaultAvgHr

\* line 79 without Math.min
Intensity2Uncapped(a) ==
    IF Supplied(a, "suffer_score") THEN 2 * a.suffer_score
    ELSE AvgHrOrDefault(a)

\* line 79, twice the intensity (so that avg_hr / 2 stays an integer):
\* a.suffer_score ?? Math.min(100, (a.avg_hr || 140) / 2)
Intensity2(a) ==
    IF Supplied(a, "suffer_score") THEN 2 * a.suffer_score
    ELSE Min2(200, AvgHrOrDefault(a))

\* one pass of the loop body of groupByWeek, lines 74-86.  The sums are kept
\* as integers: distance, run, ride and swim in metres (km * 1000), time in
\* seconds (minutes * 60), load in 1/12000 (minutes / 60 * intensity / 200).
Accumulated(bw, a) ==
    LET week == WeekKey(a.start_date)
        old == IF week \in DOMAIN bw THEN bw[week]
               ELSE [distance |-> 0, time |-> 0, load |-> 0,
                     run |-> 0, ride |-> 0, swim |-> 0]
        kind == ToLowerCase(a.type)
        new == [distance |-> old.distance + a.distance_m,
                time |-> old.time + a.moving_time_s,
                load |-> old.load + a.moving_time_s * Intensity2(a),
                run  |-> IF Includes(kind, <<"r","u","n">>)
                         THEN old.run + a.distance_m ELSE old.run,
                ride |-> IF Includes(kind, <<"r","i","d","e">>)
                         THEN old.ride + a.distance_m ELSE old.ride,
                swim |-> IF Includes(kind, <<"s","w","i","m">>)
                         THEN old.swim + a.distance_m ELSE old.swim]
    IN [k \in DOMAIN bw \cup {week} |-> IF k = week THEN new ELSE bw[k]]

\* Object.entries(byWeek).map(...).sort((a, b) => a.week.localeCompare(b.week))
RECURSIVE SortedEntries(_, _)
SortedEntries(bw, keys) ==
    IF keys = {} THEN <<>>
    ELSE LET first == CHOOSE k \in keys :
                          \A o \in keys \ {k} : WeekKeyBefore(k, o)
         IN <<[week |-> first, distance |-> bw[first].distance,
               time |-> bw[first].time, load |-> bw[first].load,
               run |-> bw[first].run, ride |-> bw[first].ride,
               swim |-> bw[first].swim]>>
            \o SortedEntries(bw, keys \ {first})

\* weeklyDistanceBySport, lines 135-146
RECURSIVE WeeklyDistanceBySport(_, _)
WeeklyDistanceBySport(acts, range) ==
    IF acts = <<>> THEN [total |-> 0, run |-> 0, swim |-> 0, ride |-> 0]
    ELSE LET a == acts[Len(acts)]
             out == WeeklyDistanceBySport(SubSeq(acts, 1, Len(acts) - 1), range)
             kind == ToLowerCase(a.type)
         IN IF a.start_date < range.start \/ a.start_date > range.end
            THEN out
            ELSE [total |-> out.total + a.distance_m,
                  run  |-> IF Includes(kind, <<"r","u","n">>)
                           THEN out.run + a.distance_m ELSE out.run,
                  swim |-> IF Includes(kind, <<"s","w","i","m">>)
                           THEN out.swim + a.distance_m ELSE out.swim,
                  ride |-> IF Includes(kind, <<"r","i","d","e">>)
                           THEN out.ride + a.distance_m ELSE out.ride]

\* most activities of a generated set
MaxActs == 2

\* Sat 2023-12-30, Sun 12-31, Mon 2024-01-01, Sat 01-06, Sun 01-07, Mon 01-08,
\* Mon 01-15, Mon 02-05, Mon 02-12
StartDays == {12, 13, 14, 19, 20, 21, 28, 49, 56}
NowDays == {21, 56}
ActTypes == {StrRun, StrRide, StrSwimRun, StrYoga}
ActDistances == {5000, 12000}

ActivityRecords ==
    [start_date : StartDays, type : ActTypes, distance_m : ActDistances,
     moving_time_s : {1800}]

InitWeeks ==
    /\ activities \in UNION { [1..n -> ActivityRecords] : n \in 0..MaxActs }
    /\ now \in NowDays
    /\ lookbackDays \in {28, 56}
    /\ weekPc = "start"
    /\ filtered = <<>>
    /\ weekI = 0
    /\ byWeek = <<>>
    /\ weeksOut = <<>>
    /\ sportPc = "start"
    /\ sportOut = <<>>
    /\ distances = <<>>
    /\ times = <<>>
    /\ movingTimeS = 0
    /\ SplitsIdle
    /\ PaceIdle
    /\ ZoneIdle
    /\ OthersIdle

\* groupByWeek lines 69-71: filter, byWeek = {}
GroupFilter ==
    /\ weekPc = "start"
    /\ filtered' = Filtered(activities, now, lookbackDays)
    /\ byWeek' = <<>>
    /\ weekI' = 0
    /\ weekPc' = "loop"
    /\ UNCHANGED <<activities, now, lookbackDays, weeksOut, sportPc, sportOut>>
    /\ UNCHANGED notWeek

\* groupByWeek lines 73-87: one activity of the for-of loop
GroupAccumulate ==
    /\ weekPc = "loop"
    /\ weekI < Len(filtered)
    /\ byWeek' = Accumulated(byWeek, filtered[weekI + 1])
    /\ weekI' = weekI + 1
    /\ UNCHANGED <<activities, now, lookbackDays, weekPc, filtered, weeksOut,
                   sportPc, sportOut>>
    /\ UNCHANGED notWeek

\* groupByWeek lines 89-91: the sorted entries
GroupReturn ==
    /\ weekPc = "loop"
    /\ weekI >= Len(filtered)
    /\ weeksOut' = SortedEntries(byWeek, DOMAIN byWeek)
    /\ weekPc' = "done"
    /\ UNCHANGED <<activities, now, lookbackDays, filtered, weekI, byWeek,
                   sportPc, sportOut>>
    /\ UNCHANGED notWeek

\* weeklyDistanceBySport(activities, getWeekRange(now))
SportTotals ==
    /\ sportPc = "start"
    /\ sportOut' = WeeklyDistanceBySport(activities, GetWeekRange(now))
    /\ sportPc' = "done"
    /\ UNCHANGED <<activities, now, lookbackDays, weekPc, filtered, weekI,
                   byWeek, weeksOut>>
    /\ UNCHANGED notWeek

NextWeeks ==
    \/ GroupFilter
    \/ GroupAccumulate
    \/ GroupReturn
    \/ SportTotals

SpecWeeks == InitWeeks /\ [][NextWeeks]_vars

-----------------------------------------------------------------------------
(* Properties of the weekly aggregation *)

\* C9: in every week bucket run + ride + swim distance <= total distance,
\* whatever the type strings are: an activity's distance goes to at most one
\* sport.
C9_SportsWithinTotal ==
    /\ \A k \in DOMAIN byWeek :
           byWeek[k].run + byWeek[k].ride + byWeek[k].swim <= byWeek[k].distance
    /\ \A k \in 1..Len(weeksOut) :
           weeksOut[k].run + weeksOut[k].ride + weeksOut[k].swim <= weeksOut[k].distance
    /\ sportPc = "done" =>
           sportOut.run + sportOut.ride + sportOut.swim <= sportOut.total

\* the Monday that starts the Monday-to-Sunday week of day d (day 0 is a Monday)
MondayOf(d) == d - (d % 7)

\* the activities groupByWeek put under the key of entry k of its result
BucketMembers(k) ==
    { j \in 1..Len(filtered) : WeekKey(filtered[j].start_date) = weeksOut[k].week }

\* C10: two activities of the lookback window share a bucket exactly when
\* they lie in the same Monday-to-Sunday week; the returned list is in
\* ascending week order; no bucket is without an activity.
C10_MondayWeekBuckets ==
    weekPc = "done" =>
        /\ \A i, j \in 1..Len(filtered) :
               (WeekKey(filtered[i].start_date) = WeekKey(filtered[j].start_date))
               <=> (MondayOf(filtered[i].start_date) = MondayOf(filtered[j].start_date))
        /\ \A k, l \in 1..Len(weeksOut) :
               k < l => \A i \in BucketMembers(k), j \in BucketMembers(l) :
                            MondayOf(filtered[i].start_date) < MondayOf(filtered[j].start_date)
        /\ \A k \in 1..Len(weeksOut) : BucketMembers(k) # {}

(***************************************************************************)
(* buildInsights and activityStreak (lib/analytics.ts)                     *)
(*                                                                         *)
(* Instants are day numbers as above.  toISOString().slice(0, 10) is the   *)
(* day number itself: the browser is taken to run in UTC.                  *)
(***************************************************************************)

\* the for loop of activityStreak looks at 60 days, line 168
streakWindow == 60

\* lines 168-172, from iteration i on
RECURSIVE StreakFrom(_, _, _, _)
StreakFrom(dates, nowDay, i, streak) ==
    IF i >= streakWindow THEN streak
    ELSE IF (nowDay - i) \in dates
         THEN StreakFrom(dates, nowDay, i + 1, streak + 1)
         ELSE IF streak > 0 THEN streak
              ELSE StreakFrom(dates, nowDay, i + 1, streak)

\* activityStreak, lines 163-174
ActivityStreak(acts, nowDay) ==
    StreakFrom({acts[k].start_date : k \in 1..Len(acts)}, nowDay, 0, 0)

\* the ratio of line 181 without its guard on previous.distance
JumpUnguarded(weeks) ==
    IF Len(weeks) >= 2
    THEN [num |-> (weeks[Len(weeks)].distance - weeks[Len(weeks) - 1].distance) * 100,
          den |-> weeks[Len(weeks) - 1].distance]
    ELSE [num |-> 0, den |-> 1]

\* line 181: jump, a percentage, as the fraction num / den with den > 0
Jump(weeks) ==
    IF Len(weeks) >= 2 /\ weeks[Len(weeks) - 1].distance > 0
    THEN [num |-> (weeks[Len(weeks)].distance - weeks[Len(weeks) - 1].distance) * 100,
          den |-> weeks[Len(weeks) - 1].distance]
    ELSE [num |-> 0, den |-> 1]

\* jump > 15
JumpOver15(jump) == jump.num > 15 * jump.den

\* line 182: the activities of the last seven days
RECURSIVE SevenDays(_, _)
SevenDays(acts, nowDay) ==
    IF acts = <<>> THEN <<>>
    ELSE LET rest == SevenDays(Tail(acts), nowDay)
         IN IF nowDay - Head(acts).start_date <= 7
            THEN <<Head(acts)>> \o rest ELSE rest

ToneConsistency == "Your consistency this week is strong."
ToneLight       == "Volume is light this week."
WorkoutAbsorb   == "40 min easy run + 4 strides"
WorkoutSteady   == "50 min steady aerobic run"

\* lines 184-199 with the consistency message from five sessions on
InsightsToneAboveFour(acts, weeks, nowDay) ==
    LET jump == Jump(weeks)
        sevenDays == SevenDays(acts, nowDay)
    IN [rampWarning    |-> JumpOver15(jump),
        jump           |-> jump,
        streak         |-> ActivityStreak(acts, nowDay),
        weeklySessions |-> Len(sevenDays),
        coachTone      |-> IF Len(sevenDays) > 4 THEN ToneConsistency
                           ELSE ToneLight,
        nextWorkout    |-> IF JumpOver15(jump) THEN WorkoutAbsorb
                           ELSE WorkoutSteady,
        readiness      |-> IF JumpOver15(jump) THEN 58 ELSE 76]

\* lines 184-199
Insights(acts, weeks, nowDay) ==
    LET jump == Jump(weeks)
        sevenDays == SevenDays(acts, nowDay)
    IN [rampWarning    |-> JumpOver15(jump),
        jump           |-> jump,
        streak         |-> ActivityStreak(acts, nowDay),
        weeklySessions |-> Len(sevenDays),
        coachTone      |-> IF Len(sevenDays) >= 4 THEN ToneConsistency
                           ELSE ToneLight,
        nextWorkout    |-> IF JumpOver15(jump) THEN WorkoutAbsorb
                           ELSE WorkoutSteady,
        readiness      |-> IF JumpOver15(jump) THEN 58 ELSE 76]

\* Mon 2024-01-29, Mon 02-05, Sat 02-10, Sun 02-11, Mon 02-12
InsightDays == {42, 49, 54, 55, 56}
InsightDistances == {0, 10000, 11500, 12000}
InsightRecords ==
    [start_date : InsightDays, type : {StrRun}, distance_m : InsightDistances,
     moving_time_s : {1800}]

\* one activity a day on n days in a row, the latest one ago days before today
DailyRun(nowDay, ago, n) ==
    [k \in 1..n |-> [start_date |-> nowDay - ago - (k - 1), type |-> StrRun,
                     distance_m |-> 5000, moving_time_s |-> 1800]]

\* a long run today
LongRun(nowDay) ==
    [start_date |-> nowDay, type |-> StrRun, distance_m |-> 20000,
     moving_time_s |-> 1800]

InitInsights ==
    /\ now = 56
    /\ \/ activities \in UNION { [1..n -> InsightRecords] : n \in 0..MaxActs }
       \/ \E ago \in {0, 1, 2, 59, 60}, n \in {3, 4, 57, 58, 59, 60, 61} :
              activities = DailyRun(now, ago, n)
       \/ \E n \in {2, 3} :
              activities = DailyRun(now, 1, n) \o <<LongRun(now)>>
    /\ lookbackDays = 56
    /\ weekPc = "start"
    /\ filtered = <<>>
    /\ weekI = 0
    /\ byWeek = <<>>
    /\ weeksOut = <<>>
    /\ sportPc = "idle"
    /\ sportOut = <<>>
    /\ insightPc = "start"
    /\ insights = <<>>
    /\ distances = <<>>
    /\ times = <<>>
    /\ movingTimeS = 0
    /\ SplitsIdle
    /\ PaceIdle
    /\ ZoneIdle
    /\ ChartIdle
    /\ ApiIdle
    /\ AiIdle
    /\ PagesIdle

\* buildInsights lines 178-199, once groupByWeek(activities, 56) has returned
BuildInsights ==
    /\ insightPc = "start"
    /\ weekPc = "done"
    /\ insights' = Insights(activities, weeksOut, now)
    /\ insightPc' = "done"
    /\ UNCHANGED notInsight

NextInsights ==
    \/ GroupFilter
    \/ GroupAccumulate
    \/ GroupReturn
    \/ BuildInsights

SpecInsights == InitInsights /\ [][NextInsights]_vars

\* the two buckets buildInsights compares: the last and the last but one of
\* the sorted weeks
HasPrevious == Len(weeksOut) >= 2
CurrentWeek == weeksOut[Len(weeksOut)]
PreviousWeek == weeksOut[Len(weeksOut) - 1]

\* C11: rampWarning is true exactly when a previous week exists, its distance
\* is above 0 and (current.distance - previous.distance) / previous.distance
\* is above 0.15; when the previous week is absent or has zero distance, jump
\* is 0 and rampWarning is false, and nothing is divided by zero.
C11_RampWarningGuarded ==
    insightPc = "done" =>
        /\ insights.jump.den > 0
        /\ insights.rampWarning
             <=> /\ HasPrevious
                 /\ PreviousWeek.distance > 0
                 /\ (CurrentWeek.distance - PreviousWeek.distance) * 100
                        > 15 * PreviousWeek.distance
        /\ (~HasPrevious \/ PreviousWeek.distance = 0)
             => insights.jump.num = 0 /\ ~insights.rampWarning

\* a previous week of zero distance before a current week with distance, and
\* no warning
C11_Witness ==
    /\ insightPc = "done"
    /\ HasPrevious
    /\ PreviousWeek.distance = 0
    /\ CurrentWeek.distance > 0
    /\ ~insights.rampWarning

\* the days in a row that have an activity, from day nowDay - i backward,
\* ending at the first day without one or after day nowDay - 59
RECURSIVE DaysInARow(_, _, _)
DaysInARow(dates, nowDay, i) ==
    IF i >= streakWindow \/ (nowDay - i) \notin dates THEN 0
    ELSE 1 + DaysInARow(dates, nowDay, i + 1)

ActivityDates == {activities[k].start_date : k \in 1..Len(activities)}

\* C12: the streak is the number of consecutive days, counted backward from
\* today inclusive and capped at 60, that each have an activity, stopping at
\* the first day without one; it is 0 whenever today has no activity.
C12_StreakCountsFromToday ==
    insightPc = "done" =>
        /\ insights.streak = DaysInARow(ActivityDates, now, 0)
        /\ now \notin ActivityDates => insights.streak = 0

(***************************************************************************)
(* chartData (activity-detail-page.tsx, lines 186-199)                     *)
(*                                                                         *)
(* A field of a row is a sequence: << >> is null and <<v>> the number v.   *)
(* x is kept in hundredths (x * 100), so that both of its forms, km with   *)
(* two decimals and minutes with one decimal, are integers.                *)
(***************************************************************************)

Null == << >>
Some(v) == <<v>>

\* S[i] || null: a sample that is 0 counts as missing
TruthyAt(S, k) == IF k <= Len(S) /\ S[k] # 0 THEN Some(S[k]) ELSE Null

\* S[i] ?? null, for the row of 1-based index k
NullishAt(S, k) == IF k <= Len(S) THEN Some(S[k]) ELSE Null

\* line 190
ChartMaxLen(distance, hr, alt, time) ==
    Max2(Max2(Len(distance), Len(hr)), Max2(Len(alt), Len(time)))

\* line 193, for the row of 0-based index i.  toFixed gives the nearest
\* decimal; the distances drawn below are whole tens of metres, so that no
\* distance / 1000 lies halfway between two of them.
ChartX(distance, time, i) ==
    IF TruthyAt(distance, i + 1) # Null
    THEN Rounded(distance[i + 1], 10)
    ELSE LET sec == IF TruthyAt(time, i + 1) # Null THEN time[i + 1] ELSE i * 10
         IN Rounded(sec * 10, 60) * 10

\* time[i] ?? 0
ChartTNotSpread(time, i, maxLen, moving) ==
    IF NullishAt(time, i + 1) # Null THEN time[i + 1] ELSE 0

\* line 194
ChartT(time, i, maxLen, moving) ==
    IF NullishAt(time, i + 1) # Null THEN time[i + 1]
    ELSE IF maxLen > 1 THEN Rounded(moving * i, maxLen - 1) ELSE 0

\* lines 192-197: Array.from({ length: maxLen }).map(...)
ChartData(distance, hr, alt, time, moving) ==
    LET maxLen == ChartMaxLen(distance, hr, alt, time)
    IN [k \in 1..maxLen |->
           [x   |-> Some(ChartX(distance, time, k - 1)),
            t   |-> Some(ChartT(time, k - 1, maxLen, moving)),
            hr  |-> NullishAt(hr, k),
            alt |-> NullishAt(alt, k)]]

ChartDistVals == {0, 1500}
ChartTimeVals == {0, 15}
ChartHrVals == {140, 150}
ChartAltVals == {0}
ChartMovingVals == {0, 101}

StreamsOf(vals) == UNION { [1..n -> vals] : n \in 0..MaxLen }

InitChart ==
    /\ distances \in StreamsOf(ChartDistVals)
    /\ times \in StreamsOf(ChartTimeVals)
    /\ heartrate \in StreamsOf(ChartHrVals)
    /\ altitude \in StreamsOf(ChartAltVals)
    /\ movingTimeS \in ChartMovingVals
    /\ chartPc = "start"
    /\ chartData = <<>>
    /\ SplitsIdle
    /\ PaceIdle
    /\ ZoneIdle
    /\ WeekIdle
    /\ InsightIdle
    /\ ApiIdle
    /\ AiIdle
    /\ PagesIdle

\* the useMemo callback, lines 186-199
ChartCompute ==
    /\ chartPc = "start"
    /\ chartData' = ChartData(distances, heartrate, altitude, times, movingTimeS)
    /\ chartPc' = "done"
    /\ UNCHANGED <<dataVars, heartrate, altitude>>
    /\ UNCHANGED notChart

NextChart == ChartCompute

SpecChart == InitChart /\ [][NextChart]_vars

LongestStream ==
    Max2(Max2(Len(distances), Len(heartrate)), Max2(Len(altitude), Len(times)))

\* one row per index of the longest stream, none when there is no stream
OneRowPerIndex ==
    /\ DOMAIN chartData = 1..LongestStream
    /\ LongestStream = 0 => chartData = <<>>

\* hr and alt are the stream's own sample or null
HrAltOwnOrNull ==
    \A k \in DOMAIN chartData :
        /\ chartData[k].hr = (IF k <= Len(heartrate) THEN <<heartrate[k]>> ELSE <<>>)
        /\ chartData[k].alt = (IF k <= Len(altitude) THEN <<altitude[k]>> ELSE <<>>)

\* t is the time stream's own sample or null
TimeOwnOrNull ==
    \A k \in DOMAIN chartData :
        chartData[k].t = (IF k <= Len(times) THEN <<times[k]>> ELSE <<>>)

\* x is the distance stream's own sample, in km, or null
DistanceOwnOrNull ==
    \A k \in DOMAIN chartData :
        IF k <= Len(distances)
        THEN /\ chartData[k].x # <<>>
             /\ AbsDiff(chartData[k].x[1] * 10, distances[k]) <= 5
        ELSE chartData[k].x = <<>>

IsNearestInteger(n, num, den) == 2 * AbsDiff(n * den, num) <= den

\* t is the time stream's sample, and where the stream has none, the moving
\* time spread evenly over the rows (0 when there is one row)
TimeOwnOrInterpolated ==
    \A k \in DOMAIN chartData :
        /\ chartData[k].t # <<>>
        /\ IF k <= Len(times) THEN chartData[k].t[1] = times[k]
           ELSE IF LongestStream > 1
                THEN IsNearestInteger(chartData[k].t[1], movingTimeS * (k - 1),
                                      LongestStream - 1)
                ELSE chartData[k].t[1] = 0

\* x is the distance in km to two decimals where the distance sample is there
\* and not 0; elsewhere it is minutes to one decimal, of the time sample if
\* that is there and not 0, and of ten seconds per row if not
XDistanceOrMinutes ==
    \A k \in DOMAIN chartData :
        /\ chartData[k].x # <<>>
        /\ IF k <= Len(distances) /\ distances[k] # 0
           THEN IsNearestInteger(chartData[k].x[1], distances[k], 10)
           ELSE /\ chartData[k].x[1] % 10 = 0
                /\ IsNearestInteger(chartData[k].x[1] \div 10,
                       (IF k <= Len(times) /\ times[k] # 0
                        THEN times[k] ELSE (k - 1) * 10), 6)

MaxRuns == 2

\* budgets of a run: one schema-repair retry, one transport-level retry
MaxRepairs == 1
MaxTransportRetries == 1

SevereRiskFlags == {"injury", "overtraining", "sudden_load_spike"}

\* routing: weekly plan and general chat on the mid tier, per-workout note,
\* weekly summary and quick encouragement on the cheapest
RoutedTier(feature) ==
    IF feature \in {"weekly_plan", "chat"} THEN "mid" ELSE "cheap"

\* features whose answers have a cache key
Cacheable(feature) ==
    feature \in {"weekly_plan", "weekly_summary", "quick_encouragement"}

\* non-chat responses must conform to a JSON schema
SchemaChecked(feature) == feature # "chat"

\* escalation on low confidence alone
EscalatesOnLowConfidence(lowConfidence, risk) == lowConfidence

\* escalation: low model-reported confidence and a severe risk flag
Escalates(lowConfidence, risk) == lowConfidence /\ risk \in SevereRiskFlags

\* ROUTE: the tier of a request
Tier(req) ==
    IF Escalates(req.lowConfidence, req.risk) THEN "top"
    ELSE RoutedTier(req.feature)

\* the requests of a behaviour: feature, keyed inputs (user_id, week_start,
\* input_hash or last_workout_id; "-" where the feature has no key), the risk
\* flag of the athlete state and whether the model has reported low
\* confidence
AiRequests ==
    { [feature |-> "weekly_plan", key |-> "u1:w1:h1", risk |-> "injury",
       lowConfidence |-> TRUE],
      [feature |-> "weekly_plan", key |-> "u1:w1:h2", risk |-> "none",
       lowConfidence |-> FALSE],
      [feature |-> "chat", key |-> "-", risk |-> "overtraining",
       lowConfidence |-> FALSE],
      [feature |-> "workout_note", key |-> "-", risk |-> "sudden_load_spike",
       lowConfidence |-> TRUE],
      [feature |-> "weekly_summary", key |-> "u1:w1:a7", risk |-> "fatigue",
       lowConfidence |-> TRUE],
      [feature |-> "quick_encouragement", key |-> "u1:w1:a7", risk |-> "none",
       lowConfidence |-> FALSE] }

\* a key of the feature alone
CacheKeyWithoutInputs(req) == <<req.feature, "-">>

\* the cache key of a request
CacheKey(req) == <<req.feature, req.key>>

\* cache get(key) finds an entry: one that was set and whose TTL has not
\* run out since
CacheFresh(cache, key) == key \in DOMAIN cache

\* cache set(key, value)
CacheSet(cache, key, answer) ==
    [k \in DOMAIN cache \cup {key} |-> IF k = key THEN answer ELSE cache[k]]

\* the entry of key is gone
CacheWithout(cache, key) == [k \in DOMAIN cache \ {key} |-> cache[k]]

InitAi ==
    /\ aiRuns = <<>>
    /\ aiCache = <<>>
    /\ aiLog = <<>>
    /\ distances = <<>>
    /\ times = <<>>
    /\ movingTimeS = 0
    /\ SplitsIdle
    /\ PaceIdle
    /\ ZoneIdle
    /\ WeekIdle
    /\ InsightIdle
    /\ ChartIdle
    /\ ApiIdle
    /\ PagesIdle

\* CALL_MODEL: the request on its tier, waiting for the model
NewRun(req) ==
    [feature |-> req.feature, key |-> req.key, risk |-> req.risk,
     lowConfidence |-> req.lowConfidence,
     pc |-> "call", tier |-> Tier(req),
     repairs |-> 0, transportRetries |-> 0, tokens |-> 0,
     answer |-> 0, source |-> "none",
     after |-> {q \in DOMAIN aiRuns : aiRuns[q].source \in {"model", "cache"}},
     ttlOver |-> FALSE]

\* CACHE_HIT: the stored answer, without a model call
CacheHit(req, cache) ==
    [NewRun(req) EXCEPT !.pc = "log", !.source = "cache",
                        !.answer = cache[CacheKey(req)]]

\* FALLBACK: the deterministic template answer; the retry budgets of the
\* request are no longer kept
Fallback(run) ==
    [run EXCEPT !.pc = "log", !.source = "fallback", !.answer = 0,
                !.repairs = 0, !.transportRetries = 0]

\* ACCEPT: the answer of run r's model call
Accepted(run, r) ==
    [run EXCEPT !.pc = "log", !.source = "model", !.answer = r,
                !.repairs = 0, !.transportRetries = 0]

SetRun(r, rec) == [aiRuns EXCEPT ![r] = rec]

\* the schema-repair retry is still to be had, whatever was used before
MayRepairAgain(run) == TRUE

\* the schema-repair retry is still to be had
MayRepair(run) == run.repairs < MaxRepairs

\* the transport-level retry is still to be had, whatever was used before
MayRetryTransportAgain(run) == TRUE

\* the transport-level retry is still to be had
MayRetryTransport(run) == run.transportRetries < MaxTransportRetries

\* ROUTE: a request arrives, is routed to its tier and looked up in the cache
AiRoute(req) ==
    /\ Len(aiRuns) < MaxRuns
    /\ aiRuns' = Append(aiRuns,
           IF Cacheable(req.feature) /\ CacheFresh(aiCache, CacheKey(req))
           THEN CacheHit(req, aiCache) ELSE NewRun(req))
    /\ UNCHANGED <<aiCache, aiLog>>
    /\ UNCHANGED notAi

\* VALIDATE of the text call_model(tier, prompt, schema) returned: valid says
\* that it conforms to the schema
Validated(run, r, valid) ==
    LET got == [run EXCEPT !.tokens = @ + 1] IN
    IF SchemaChecked(run.feature) /\ ~valid
    THEN IF MayRepair(run)
         THEN [got EXCEPT !.repairs = @ + 1]
         ELSE Fallback(got)
    ELSE Accepted(got, r)

\* CALL_MODEL answered: VALIDATE, then REPAIR_RETRY, ACCEPT (with the answer
\* stored under the cache key) or FALLBACK
AiResponse(r, valid) ==
    LET next == Validated(aiRuns[r], r, valid) IN
    /\ aiRuns[r].pc = "call"
    /\ aiRuns' = SetRun(r, next)
    /\ aiCache' = IF next.source = "model" /\ Cacheable(next.feature)
                  THEN CacheSet(aiCache, CacheKey(next), next.answer)
                  ELSE aiCache
    /\ UNCHANGED aiLog
    /\ UNCHANGED notAi

\* CALL_MODEL failed at the provider or in the network: one retry, then
\* FALLBACK
AiTransportFailure(r) ==
    /\ aiRuns[r].pc = "call"
    /\ aiRuns' = SetRun(r,
           IF MayRetryTransport(aiRuns[r])
           THEN [aiRuns[r] EXCEPT !.transportRetries = @ + 1]
           ELSE Fallback(aiRuns[r]))
    /\ UNCHANGED <<aiCache, aiLog>>
    /\ UNCHANGED notAi

\* the caller's timeout ends a run that waits for the model
AiTimeout(r) ==
    /\ aiRuns[r].pc = "call"
    /\ aiRuns' = SetRun(r, Fallback(aiRuns[r]))
    /\ UNCHANGED <<aiCache, aiLog>>
    /\ UNCHANGED notAi

\* a record that counts the request itself as usage
InteractionCountingRequest(r, run) ==
    [run |-> r, feature |-> run.feature, source |-> run.source,
     model |-> IF run.source = "model" THEN run.tier ELSE "none",
     tokens |-> run.tokens + 1]

\* the AIInteraction record of a run: model identifier and token usage
Interaction(r, run) ==
    [run |-> r, feature |-> run.feature, source |-> run.source,
     model |-> IF run.source = "model" THEN run.tier ELSE "none",
     tokens |-> run.tokens]

\* LOG
AiLogRecord(r) ==
    /\ aiRuns[r].pc = "log"
    /\ aiLog' = Append(aiLog, Interaction(r, aiRuns[r]))
    /\ aiRuns' = SetRun(r, [aiRuns[r] EXCEPT !.pc = "done"])
    /\ UNCHANGED aiCache
    /\ UNCHANGED notAi

\* the TTL of a cache entry runs out
AiExpire(key) ==
    /\ key \in DOMAIN aiCache
    /\ aiCache' = CacheWithout(aiCache, key)
    /\ aiRuns' = [r \in DOMAIN aiRuns |->
                     IF CacheKey(aiRuns[r]) = key
                     THEN [aiRuns[r] EXCEPT !.ttlOver = TRUE] ELSE aiRuns[r]]
    /\ UNCHANGED aiLog
    /\ UNCHANGED notAi

AiStep(r) ==
    \/ \E valid \in BOOLEAN : AiResponse(r, valid)
    \/ AiTransportFailure(r)
    \/ AiTimeout(r)
    \/ AiLogRecord(r)

NextAi ==
    \/ \E req \in AiRequests : AiRoute(req)
    \/ \E r \in DOMAIN aiRuns : AiStep(r)
    \/ \E key \in DOMAIN aiCache : AiExpire(key)

SpecAi == InitAi /\ [][NextAi]_vars

\* the requests of the specification with fairness: one of a feature with
\* schema and cache key, one of the feature with neither
AiFairRequests ==
    {req \in AiRequests :
        \/ req.feature = "weekly_plan" /\ req.risk = "injury"
        \/ req.feature = "chat"}

NextAiFair ==
    \/ \E req \in AiFairRequests : AiRoute(req)
    \/ \E r \in DOMAIN aiRuns : AiStep(r)
    \/ \E key \in DOMAIN aiCache : AiExpire(key)

\* a request that was issued is served: the model backend answers or fails
\* and the pipeline takes its next step
SpecAiFair ==
    /\ InitAi
    /\ [][NextAiFair]_vars
    /\ \A r \in 1..MaxRuns : WF_vars(r \in DOMAIN aiRuns /\ AiStep(r))

\* a run whose answer is determined
Answered(r) == aiRuns[r].pc \in {"log", "done"}

\* r1 and r2 are two requests with the same cache key, r2 the later one, and
\* no entry of that key has run out of its TTL since r1 was issued
SameKeyWithinTTL(r1, r2) ==
    /\ r1 < r2
    /\ Cacheable(aiRuns[r1].feature)
    /\ aiRuns[r1].feature = aiRuns[r2].feature
    /\ aiRuns[r1].key = aiRuns[r2].key
    /\ ~aiRuns[r1].ttlOver

\* the answers given to earlier requests with the key of run r
EarlierAnswers(r) ==
    {aiRuns[q].answer : q \in {q \in 1..(r - 1) :
        /\ aiRuns[q].feature = aiRuns[r].feature
        /\ aiRuns[q].key = aiRuns[r].key
        /\ aiRuns[q].source = "model"}}

\* a run served from the cache: no model call (no token, no retry) and an
\* answer given before to a request with the same key
ServedFromCache(r) ==
    /\ aiRuns[r].source = "cache"
    /\ aiRuns[r].tokens = 0
    /\ aiRuns[r].repairs = 0 /\ aiRuns[r].transportRetries = 0
    /\ aiRuns[r].answer \in EarlierAnswers(r)

RepairBudgetKept ==
    \A r \in DOMAIN aiRuns :
        /\ aiRuns[r].repairs <= 1
        /\ Answered(r) => aiRuns[r].source \in {"cache", "model", "fallback"}

\* what follows a response of a feature with a schema: one that fails
\* validation gets the repair retry if none was had and the template answer
\* if one was; one that validates is accepted
RepairRule ==
    \A r \in DOMAIN aiRuns :
        aiRuns[r].feature # "chat" =>
            /\ AiResponse(r, FALSE) =>
                  IF aiRuns[r].repairs = 0
                  THEN /\ aiRuns'[r].pc = "call"
                       /\ aiRuns'[r].repairs = 1
                       /\ aiRuns'[r].source = "none"
                  ELSE /\ aiRuns'[r].pc = "log"
                       /\ aiRuns'[r].source = "fallback"
                       /\ aiRuns'[r].answer = 0
            /\ AiResponse(r, TRUE) =>
                  /\ aiRuns'[r].pc = "log"
                  /\ aiRuns'[r].source = "model"
                  /\ aiRuns'[r].answer = r

\* C15: for a non-chat feature a response that fails schema validation gets
\* exactly one repair retry; the repaired response is accepted if it
\* validates, and if it fails again the run ends with the template fallback.
\* No run has more than one repair retry or ends with a validation error.
C15_OneRepairThenFallback == []RepairBudgetKept /\ [][RepairRule]_vars

\* two responses, both failing validation, and the template answer
C15_Witness ==
    \E r \in DOMAIN aiRuns :
        /\ aiRuns[r].feature = "weekly_plan"
        /\ aiRuns[r].tokens = 2
        /\ aiRuns[r].source = "fallback"
        /\ aiRuns[r].answer = 0

\* at most one transport-level retry, and a defined answer at the end
TransportBudgetKept ==
    \A r \in DOMAIN aiRuns :
        /\ aiRuns[r].transportRetries <= 1
        /\ aiRuns[r].pc \in {"call", "log", "done"}
        /\ IF Answered(r)
           THEN \/ aiRuns[r].source = "cache"
                \/ aiRuns[r].source = "model" /\ aiRuns[r].answer = r
                \/ aiRuns[r].source = "fallback" /\ aiRuns[r].answer = 0
           ELSE aiRuns[r].source = "none"

\* a provider or network failure is retried once, leaving the repair retry
\* as it was, and ends in the fallback the second time; a timeout ends in
\* the fallback
FailureRule ==
    \A r \in DOMAIN aiRuns :
        /\ AiTransportFailure(r) =>
              IF aiRuns[r].transportRetries = 0
              THEN /\ aiRuns'[r].pc = "call"
                   /\ aiRuns'[r].transportRetries = 1
                   /\ aiRuns'[r].repairs = aiRuns[r].repairs
              ELSE /\ aiRuns'[r].pc = "log"
                   /\ aiRuns'[r].source = "fallback"
        /\ AiTimeout(r) =>
              /\ aiRuns'[r].pc = "log"
              /\ aiRuns'[r].source = "fallback"

\* every request that is issued gets its answer and its record
EveryRunEnds ==
    \A r \in 1..MaxRuns :
        (r \in DOMAIN aiRuns) ~> (r \in DOMAIN aiRuns /\ aiRuns[r].pc = "done")

\* C16: every run ends with a cache answer, an accepted model answer or the
\* template fallback; a provider or network failure is retried at most once,
\* apart from the schema-repair retry, and exhausted retries and the caller's
\* timeout end in the fallback.
C16_EveryRunEndsDefined ==
    /\ []TransportBudgetKept
    /\ [][FailureRule]_vars
    /\ EveryRunEnds

\* a run that has had its transport retry and its repair retry and calls the
\* model once more
C16_Witness ==
    \E r \in DOMAIN aiRuns :
        /\ aiRuns[r].pc = "call"
        /\ aiRuns[r].transportRetries = 1
        /\ aiRuns[r].repairs = 1

\* the records of run r
RecordsOf(r) == {i \in DOMAIN aiLog : aiLog[i].run = r}

\* one record for a run that is done and none before, with the source, and
\* with no token for a cache hit
OneRecordPerRun ==
    \A r \in DOMAIN aiRuns :
        /\ Cardinality(RecordsOf(r)) = (IF aiRuns[r].pc = "done" THEN 1 ELSE 0)
        /\ \A i \in RecordsOf(r) :
               /\ aiLog[i].source = aiRuns[r].source
               /\ aiLog[i].source \in {"cache", "model", "fallback"}
               /\ aiLog[i].tokens = aiRuns[r].tokens
               /\ aiLog[i].source = "cache" => aiLog[i].tokens = 0
               /\ aiLog[i].model # "none" <=> aiLog[i].source = "model"

\* the table only grows, at its end
AppendOnly ==
    /\ Len(aiLog') >= Len(aiLog)
    /\ SubSeq(aiLog', 1, Len(aiLog)) = aiLog

\* C17: every invocation appends exactly one AIInteraction record, after its
\* answer is determined, on every path; a cache hit is logged with zero
\* token usage; records are never modified or deleted.
C17_OneInteractionPerRun == []OneRecordPerRun /\ [][AppendOnly]_vars

\* a cache hit and the model answer it repeats, both logged
C17_Witness ==
    /\ Len(aiLog) = 2
    /\ aiLog[1].source = "model" /\ aiLog[1].tokens > 0
    /\ aiLog[2].source = "cache" /\ aiLog[2].tokens = 0

\* C18: a request is on the top tier only when the model reported low
\* confidence and a severe risk flag (injury, overtraining,
\* sudden_load_spike) is present; otherwise on its routed tier: mid for
\* weekly plan and chat, cheapest for workout note, weekly summary and quick
\* encouragement.
C18_EscalationNeedsBoth ==
    /\ \A r \in DOMAIN aiRuns :
           IF /\ aiRuns[r].lowConfidence
              /\ aiRuns[r].risk \in {"injury", "overtraining", "sudden_load_spike"}
           THEN aiRuns[r].tier = "top"
           ELSE aiRuns[r].tier =
                    (IF aiRuns[r].feature \in {"weekly_plan", "chat"}
                     THEN "mid" ELSE "cheap")
    /\ \A i \in DOMAIN aiLog :
           aiLog[i].model \in {"none", aiRuns[aiLog[i].run].tier}

\* low confidence without a severe flag, and a severe flag without low
\* confidence: both answered on the routed tier
C18_Witness ==
    /\ Len(aiLog) = 2
    /\ \E i \in DOMAIN aiLog :
           /\ aiRuns[aiLog[i].run].lowConfidence
           /\ aiRuns[aiLog[i].run].risk = "fatigue"
           /\ aiLog[i].model = "cheap"
    /\ \E i \in DOMAIN aiLog :
           /\ ~aiRuns[aiLog[i].run].lowConfidence
           /\ aiRuns[aiLog[i].run].risk = "overtraining"
           /\ aiLog[i].model = "mid"

(***************************************************************************)
(* The API client (lib/api.ts).                                            *)
(*                                                                         *)
(* Tokens are the numbers 1, 2, ... in the order the server issues them; 0 *)
(* is the empty string, and for localStorage the absent key.  A settled    *)
(* promise runs its continuations before any other event is handled, so    *)
(* the settling of the refresh and what the requests that await it do next *)
(* are one step.                                                           *)
(*                                                                         *)
(* A request record keeps, beside the config (auth, the Authorization      *)
(* header, and retry, the _retry mark), the history the properties need:   *)
(* sends, how often it was dispatched, waits, how often it awaited a token *)
(* refresh, and got, the token the refresh gave it.                        *)
(***************************************************************************)

\* most calls through `api` and most tokens issued in a behaviour
MaxRequests == 2
MaxTokens == 3

\* lines 23-30 without the two localStorage.setItem calls
SetTokensInMemoryOnly(tok, access, refresh) ==
    [accessToken  |-> access,
     lsAccess     |-> tok.lsAccess,
     refreshToken |-> IF refresh # 0 THEN refresh ELSE tok.refreshToken,
     lsRefresh    |-> tok.lsRefresh]

\* lines 23-30: setTokens({access, refresh?}); refresh 0 is a missing refresh
SetTokens(tok, access, refresh) ==
    [accessToken  |-> access,
     lsAccess     |-> access,
     refreshToken |-> IF refresh # 0 THEN refresh ELSE tok.refreshToken,
     lsRefresh    |-> IF refresh # 0 THEN refresh ELSE tok.lsRefresh]

\* lines 32-37: clearTokens()
ClearTokens ==
    [accessToken |-> 0, lsAccess |-> 0, refreshToken |-> 0, lsRefresh |-> 0]

Tokens ==
    [accessToken |-> accessToken, lsAccess |-> lsAccess,
     refreshToken |-> refreshToken, lsRefresh |-> lsRefresh]

\* the four token variables take the values of tok
TokensBecome(tok) ==
    /\ accessToken' = tok.accessToken
    /\ lsAccess' = tok.lsAccess
    /\ refreshToken' = tok.refreshToken
    /\ lsRefresh' = tok.lsRefresh

\* lines 45-50, the request interceptor: the header the request goes out with
WithAuthorization(header, access) == IF access # 0 THEN access ELSE header

\* line 82 without the _retry mark
ShouldRefreshEveryTime(status, retry, refresh) == status = 401 /\ refresh # 0

\* line 82: status === 401 && !original?._retry && getRefreshToken()
ShouldRefresh(status, retry, refresh) ==
    status = 401 /\ ~retry /\ refresh # 0

\* line 54 without the test: a POST for every request that gets here
StartsRefreshWhilePending(pending) == TRUE

\* line 54: if (!refreshing), pending being the value of refreshing
StartsRefresh(pending) == pending = <<>>

\* lines 7-9: the module is loaded, with or without tokens in localStorage
InitApi ==
    /\ \E stored \in {0, 1} :
          /\ lsAccess = stored
          /\ lsRefresh = stored
          /\ accessToken = stored
          /\ refreshToken = stored
          /\ issued = stored
    /\ refreshing = <<>>
    /\ refreshPosts = 0
    /\ requests = <<>>
    /\ distances = <<>>
    /\ times = <<>>
    /\ movingTimeS = 0
    /\ SplitsIdle
    /\ PaceIdle
    /\ ZoneIdle
    /\ WeekIdle
    /\ InsightIdle
    /\ ChartIdle
    /\ AiIdle
    /\ PagesIdle

\* login, register, dev-login (auth-context.tsx): setTokens(res.data.tokens)
Login ==
    /\ issued < MaxTokens
    /\ issued' = issued + 1
    /\ TokensBecome(SetTokens(Tokens, issued + 1, issued + 1))
    /\ UNCHANGED <<refreshing, refreshPosts, requests>>
    /\ UNCHANGED notApi

\* logout (auth-context.tsx): clearTokens()
Logout ==
    /\ TokensBecome(ClearTokens)
    /\ UNCHANGED <<refreshing, refreshPosts, requests, issued>>
    /\ UNCHANGED notApi

\* a call through `api`: the request interceptor, then the request goes out
ApiSend ==
    /\ Len(requests) < MaxRequests
    /\ requests' = Append(requests,
           [pc |-> "sent", retry |-> FALSE,
            auth |-> WithAuthorization(0, accessToken),
            sends |-> 1, waits |-> 0, got |-> 0])
    /\ UNCHANGED <<accessToken, refreshToken, lsAccess, lsRefresh, refreshing,
                   refreshPosts, issued>>
    /\ UNCHANGED notApi

\* line 77: a response with a 2xx status
ApiRespondOk(i) ==
    /\ requests[i].pc = "sent"
    /\ requests' = [requests EXCEPT ![i].pc = "resolved"]
    /\ UNCHANGED <<accessToken, refreshToken, lsAccess, lsRefresh, refreshing,
                   refreshPosts, issued>>
    /\ UNCHANGED notApi

\* lines 78-97 up to the await: an error response.  refreshAccessToken
\* (lines 52-56, 73) starts the POST unless one is pending.
ApiRespondError(i, status) ==
    /\ requests[i].pc = "sent"
    /\ IF ShouldRefresh(status, requests[i].retry, refreshToken)
       THEN /\ requests' = [requests EXCEPT ![i].pc = "waiting",
                                            ![i].retry = TRUE,
                                            ![i].waits = @ + 1]
            /\ refreshing' = IF StartsRefresh(refreshing) THEN <<refreshToken>>
                             ELSE refreshing
            /\ refreshPosts' = IF StartsRefresh(refreshing)
                               THEN refreshPosts + 1 ELSE refreshPosts
       ELSE /\ requests' = [requests EXCEPT ![i].pc = "rejected"]
            /\ UNCHANGED <<refreshing, refreshPosts>>
    /\ UNCHANGED <<accessToken, refreshToken, lsAccess, lsRefresh, issued>>
    /\ UNCHANGED notApi

\* lines 85-96, after the await: with a token the request is sent again
\* through `api` (and its request interceptor), without one it is rejected
Resumed(req, refreshed, access) ==
    IF req.pc # "waiting" THEN req
    ELSE IF refreshed # 0
         THEN [req EXCEPT !.pc = "sent", !.got = refreshed,
                          !.auth = WithAuthorization(refreshed, access),
                          !.sends = @ + 1]
         ELSE [req EXCEPT !.pc = "rejected"]

\* lines 57-71: the POST /auth/refresh settles.  outcome "token": the
\* response has an access token; "empty": it has none; "error": the POST
\* failed.
RefreshSettle(outcome) ==
    /\ refreshing # <<>>
    /\ outcome = "token" => issued < MaxTokens
    /\ LET next == IF outcome = "token" THEN issued + 1 ELSE 0
           tok == IF outcome = "token" THEN SetTokens(Tokens, next, 0)
                  ELSE IF outcome = "error" THEN ClearTokens
                  ELSE Tokens
       IN /\ TokensBecome(tok)
          /\ issued' = IF outcome = "token" THEN next ELSE issued
          /\ requests' = [i \in DOMAIN requests |->
                             Resumed(requests[i], next, tok.accessToken)]
    /\ refreshing' = <<>>
    /\ refreshPosts' = refreshPosts - 1
    /\ UNCHANGED notApi

NextApi ==
    \/ Login
    \/ Logout
    \/ ApiSend
    \/ \E i \in DOMAIN requests : ApiRespondOk(i)
    \/ \E i \in DOMAIN requests, status \in {401, 500} : ApiRespondError(i, status)
    \/ \E outcome \in {"token", "empty", "error"} : RefreshSettle(outcome)

SpecApi == InitApi /\ [][NextApi]_vars

\* a request goes out at most twice and awaits at most one refresh; one that
\* went out twice was marked, awaited a refresh and carries the token that
\* refresh returned
ResentAtMostOnce ==
    \A i \in DOMAIN requests :
        /\ requests[i].sends <= 2
        /\ requests[i].waits <= 1
        /\ requests[i].sends = 2 =>
              /\ requests[i].retry
              /\ requests[i].waits = 1
              /\ requests[i].got \in 1..issued
              /\ requests[i].auth = requests[i].got
        /\ requests[i].pc = "waiting" => refreshing # <<>>

\* a 401 for a request that was not sent again yet, with a refresh token
\* stored, makes it await a refresh; a 401 for one that was sent again
\* rejects it and starts no refresh; the refresh that returns a token sends
\* the requests awaiting it again, with that token
RefreshRule ==
    /\ \A i \in DOMAIN requests :
           ApiRespondError(i, 401) =>
               IF ~requests[i].retry /\ refreshToken # 0
               THEN /\ requests'[i].pc = "waiting"
                    /\ refreshing' # <<>>
               ELSE /\ requests'[i].pc = "rejected"
                    /\ refreshing' = refreshing
    /\ RefreshSettle("token") =>
           /\ issued' = issued + 1
           /\ \A i \in DOMAIN requests :
                  requests[i].pc = "waiting" =>
                      /\ requests'[i].pc = "sent"
                      /\ requests'[i].auth = issued'
                      /\ requests'[i].sends = requests[i].sends + 1

\* C19: a request that fails with 401 while a refresh token is stored makes
\* the client refresh the access token and, if that gives a token, is sent
\* again with the new Bearer token; a request is sent again at most once: a
\* 401 after the refresh rejects it without another refresh attempt.
C19_RefreshAndResendOnce == []ResentAtMostOnce /\ [][RefreshRule]_vars

\* a request sent again with the refreshed token and rejected at its second
\* 401, while the refresh token is still stored and no refresh was started
C19_Witness ==
    \E i \in DOMAIN requests :
        /\ requests[i].sends = 2
        /\ requests[i].pc = "rejected"
        /\ requests[i].auth = accessToken
        /\ refreshToken # 0
        /\ refreshing = <<>>

(***************************************************************************)
(* The training load of groupByWeek (lib/analytics.ts, lines 79-82)        *)
(***************************************************************************)

\* Mon 2024-02-05 and Mon 2024-02-12: two buckets
LoadBase ==
    [start_date : {49, 56}, type : {StrRun}, distance_m : {5000},
     moving_time_s : {1800, 3600}]

\* an activity with or without suffer_score and avg_hr
LoadRecords ==
    LoadBase
    \cup [start_date : {49, 56}, type : {StrRun}, distance_m : {5000},
          moving_time_s : {1800, 3600}, suffer_score : {0, 80}]
    \cup [start_date : {49, 56}, type : {StrRun}, distance_m : {5000},
          moving_time_s : {1800, 3600}, avg_hr : {0, 150, 220}]
    \cup [start_date : {49, 56}, type : {StrRun}, distance_m : {5000},
          moving_time_s : {1800}, suffer_score : {80}, avg_hr : {150}]

InitLoad ==
    /\ activities \in UNION { [1..n -> LoadRecords] : n \in 0..MaxActs }
    /\ now = 56
    /\ lookbackDays = 28
    /\ weekPc = "start"
    /\ filtered = <<>>
    /\ weekI = 0
    /\ byWeek = <<>>
    /\ weeksOut = <<>>
    /\ sportPc = "idle"
    /\ sportOut = <<>>
    /\ distances = <<>>
    /\ times = <<>>
    /\ movingTimeS = 0
    /\ SplitsIdle
    /\ PaceIdle
    /\ ZoneIdle
    /\ OthersIdle

NextLoad ==
    \/ GroupFilter
    \/ GroupAccumulate
    \/ GroupReturn

SpecLoad == InitLoad /\ [][NextLoad]_vars

\* twice the intensity as stated: suffer_score when supplied, otherwise
\* min(100, avg_hr / 2), a missing avg_hr counting as 0
StatedIntensity2(a) ==
    IF "suffer_score" \in DOMAIN a THEN 2 * a.suffer_score
    ELSE IF "avg_hr" \in DOMAIN a /\ a.avg_hr < 200 THEN a.avg_hr
    ELSE IF "avg_hr" \in DOMAIN a THEN 200
    ELSE 0

\* the same with a heart rate of 140 for an avg_hr that is missing or 0
StatedIntensity2WithDefault(a) ==
    IF "suffer_score" \notin DOMAIN a
          /\ ("avg_hr" \notin DOMAIN a \/ a.avg_hr = 0)
    THEN 140
    ELSE StatedIntensity2(a)

\* sum over the activities of acts in bucket week of moving_time_s times
\* twice the intensity, which is 12000 times moving minutes * intensity / 100
RECURSIVE LoadSum(_, _, _)
LoadSum(acts, week, withDefault) ==
    IF acts = <<>> THEN 0
    ELSE LET a == Head(acts)
             rest == LoadSum(Tail(acts), week, withDefault)
         IN IF WeekKey(a.start_date) # week THEN rest
            ELSE rest + a.moving_time_s *
                     (IF withDefault THEN StatedIntensity2WithDefault(a)
                      ELSE StatedIntensity2(a))

\* C20: the load of a bucket is the sum over its activities of
\* moving_minutes * intensity / 100, with intensity the suffer_score when
\* one is supplied and min(100, avg_hr / 2) otherwise.
C20_LoadFromSufferScoreOrHeartRate ==
    weekPc = "done" =>
        \A k \in DOMAIN weeksOut :
            weeksOut[k].load = LoadSum(filtered, weeksOut[k].week, FALSE)

\* C20: as above, with avg_hr taken as 140 where it is missing or 0.
C20_LoadWithDefaultHeartRate ==
    weekPc = "done" =>
        \A k \in DOMAIN weeksOut :
            weeksOut[k].load = LoadSum(filtered, weeksOut[k].week, TRUE)

\* a bucket of two activities, one with a suffer_score and one with neither
\* score nor heart rate: 30 min * 80 / 100 + 60 min * 70 / 100 = 66
C20_Witness ==
    /\ weekPc = "done"
    /\ Len(filtered) = 2
    /\ Len(weeksOut) = 1
    /\ "suffer_score" \in DOMAIN filtered[1]
    /\ DOMAIN filtered[2] \cap {"suffer_score", "avg_hr"} = {}
    /\ weeksOut[1].load = 66 * 12000

(***************************************************************************)
(* The heart-rate zone cards of the profile page (pages/profile-page.tsx)  *)
(***************************************************************************)

\* changes typed into the zone inputs in one run
MaxEdits == 2

DigitChars == <<"0","1","2","3","4","5","6","7","8","9">>

\* String(n) of an integer n >= 0
RECURSIVE NatToString(_)
NatToString(n) ==
    IF n < 10 THEN <<DigitChars[n + 1]>>
    ELSE NatToString(n \div 10) \o <<DigitChars[(n % 10) + 1]>>

\* `${n}` of an integer
NumberToString(n) ==
    IF n < 0 THEN <<"-">> \o NatToString(-n) ELSE NatToString(n)

DigitValue(c) == (CHOOSE k \in 1..10 : DigitChars[k] = c) - 1

\* Number(s) of a string of decimal digits; Number('') is 0
RECURSIVE ParseNat(_)
ParseNat(s) ==
    IF s = <<>> THEN 0
    ELSE 10 * ParseNat(SubSeq(s, 1, Len(s) - 1)) + DigitValue(s[Len(s)])

\* Number(s) of the value of a number input
ToNumber(s) ==
    IF s # <<>> /\ s[1] = "-" THEN 0 - ParseNat(Tail(s)) ELSE ParseNat(s)

StrBpm == <<" ","b","p","m">>

\* `${zmin}-${zmax} bpm` for every zone
ZoneTxtAlwaysRange(z) ==
    NumberToString(z.min) \o <<"-">> \o NumberToString(z.max) \o StrBpm

\* txt of one zone card; zmax is a Number(), so `zmax == null` is never true
ZoneTxt(z) ==
    IF z.max = -1
    THEN NumberToString(z.min) \o <<"+">> \o StrBpm
    ELSE NumberToString(z.min) \o <<"-">> \o NumberToString(z.max) \o StrBpm

\* the list the cards are drawn from
ZonesDrawn(zones, draft, edit) ==
    IF edit THEN draft
    ELSE SubSeq(zones, 1, IF Len(zones) < 5 THEN Len(zones) ELSE 5)

\* one render of the zone cards
ZoneCards(zones, draft, edit) ==
    LET drawn == ZonesDrawn(zones, draft, edit)
    IN [k \in DOMAIN drawn |-> ZoneTxt(drawn[k])]

\* the five draft zones made from the profile that was fetched; i is the
\* source's i + 1
NormalizedDraft(zones) ==
    [i \in 1..5 |->
        [index |-> i,
         min |-> IF i <= Len(zones) THEN zones[i].min
                 ELSE IF i = 1 THEN 100 ELSE 120 + (i - 1) * 10,
         max |-> IF i <= Len(zones) THEN zones[i].max
                 ELSE IF i = 5 THEN -1 ELSE 129 + (i - 1) * 10]]

\* zones as synced from the provider: none, five with an open-ended top
\* zone, five with a bounded top zone
StravaZones ==
    <<[min |-> 0, max |-> 120], [min |-> 120, max |-> 140],
      [min |-> 140, max |-> 155], [min |-> 155, max |-> 170],
      [min |-> 170, max |-> -1]>>

ProfileZoneLists ==
    {<<>>, StravaZones, [StravaZones EXCEPT ![5].max = 190]}

\* what can be typed into a zone input: nothing, or a number
ZoneInputs == {StrEmpty, <<"1","5","5">>}

InitProfile ==
    /\ ProfileIdle
    /\ AiPageIdle
    /\ LabelIdle
    /\ PlanIdle
    /\ ByDayIdle
    /\ distances = <<>>
    /\ times = <<>>
    /\ movingTimeS = 0
    /\ SplitsIdle
    /\ PaceIdle
    /\ ZoneIdle
    /\ WeekIdle
    /\ InsightIdle
    /\ ChartIdle
    /\ ApiIdle
    /\ AiIdle

notProfile == <<dataVars, splitsVars, paceVars, zoneVars, weekVars,
                insightVars, chartVars, apiVars, aiVars, aiPageVars,
                labelVars, planVars, byDayVars>>

\* GET /profile answered: setForm(data) and the draft made from it
ProfileLoaded(zones) ==
    /\ hrZones' = zones
    /\ zoneDraft' = NormalizedDraft(zones)
    /\ zoneTxt' = ZoneCards(hrZones', zoneDraft', editZones)
    /\ UNCHANGED <<editZones, zoneEdits, notProfile>>

\* the Edit / Cancel edit button
ToggleEditZones ==
    /\ zoneDraft # <<>>
    /\ editZones' = ~editZones
    /\ zoneTxt' = ZoneCards(hrZones, zoneDraft, editZones')
    /\ UNCHANGED <<hrZones, zoneDraft, zoneEdits, notProfile>>

\* onChange of the Min bpm input of card idx
EditZoneMin(idx, value) ==
    /\ editZones
    /\ zoneEdits < MaxEdits
    /\ idx \in DOMAIN zoneDraft
    /\ zoneDraft' = [zoneDraft EXCEPT
                        ![idx].min = IF value # StrEmpty THEN ToNumber(value)
                                     ELSE 0]
    /\ zoneEdits' = zoneEdits + 1
    /\ zoneTxt' = ZoneCards(hrZones, zoneDraft', editZones)
    /\ UNCHANGED <<hrZones, editZones, notProfile>>

\* onChange of the Max bpm input of card idx
EditZoneMax(idx, value) ==
    /\ editZones
    /\ zoneEdits < MaxEdits
    /\ idx \in DOMAIN zoneDraft
    /\ zoneDraft' = [zoneDraft EXCEPT
                        ![idx].max = IF value # StrEmpty THEN ToNumber(value)
                                     ELSE -1]
    /\ zoneEdits' = zoneEdits + 1
    /\ zoneTxt' = ZoneCards(hrZones, zoneDraft', editZones)
    /\ UNCHANGED <<hrZones, editZones, notProfile>>

\* Save zones: PATCH /profile with the draft, then the profile is fetched
\* again and holds the zones that were saved
SaveZones ==
    /\ editZones
    /\ editZones' = FALSE
    /\ hrZones' = zoneDraft
    /\ zoneDraft' = NormalizedDraft(hrZones')
    /\ zoneTxt' = ZoneCards(hrZones', zoneDraft', editZones')
    /\ UNCHANGED <<zoneEdits, notProfile>>

NextProfile ==
    \/ \E zones \in ProfileZoneLists : ProfileLoaded(zones)
    \/ ToggleEditZones
    \/ \E idx \in 1..5, value \in ZoneInputs : EditZoneMin(idx, value)
    \/ \E idx \in 1..5, value \in ZoneInputs : EditZoneMax(idx, value)
    \/ SaveZones

SpecProfile == InitProfile /\ [][NextProfile]_vars

\* the two labels
OpenEndedLabel(min) == NumberToString(min) \o <<"+"," ","b","p","m">>
RangeLabel(min, max) ==
    NumberToString(min) \o <<"-">> \o NumberToString(max)
        \o <<" ","b","p","m">>

SessionsInLastSevenDays ==
    Cardinality({k \in DOMAIN activities : now - activities[k].start_date <= 7})

\* C22: readiness is 58 and nextWorkout the load-absorption suggestion
\* exactly when rampWarning is true, readiness is 76 and nextWorkout the
\* generic suggestion exactly when it is false; coachTone is the consistency
\* message exactly when at least 4 activities lie in the last 7 days.
C22_RampOutputsAgree ==
    insightPc = "done" =>
        /\ insights.rampWarning
             <=> insights.readiness = 58 /\ insights.nextWorkout = WorkoutAbsorb
        /\ ~insights.rampWarning
             <=> insights.readiness = 76 /\ insights.nextWorkout = WorkoutSteady
        /\ insights.coachTone = ToneConsistency
             <=> SessionsInLastSevenDays >= 4
        /\ insights.coachTone # ToneConsistency
             => insights.coachTone = ToneLight
        /\ insights.weeklySessions = SessionsInLastSevenDays

\* exactly four sessions in the last seven days, the last one a long run
\* that sets the ramp warning: readiness 58 with the consistency message
C22_Witness ==
    /\ insightPc = "done"
    /\ SessionsInLastSevenDays = 4
    /\ insights.rampWarning
    /\ insights.readiness = 58
    /\ insights.coachTone = ToneConsistency

\* the calendar week, Monday to Sunday, of a day: day 0 is a Monday
CalendarWeek(d) == d \div 7

\* the metres of the activities of acts that started in calendar week w
RECURSIVE CalendarWeekDistance(_, _)
CalendarWeekDistance(acts, w) ==
    IF acts = <<>> THEN 0
    ELSE CalendarWeekDistance(Tail(acts), w)
             + (IF CalendarWeek(Head(acts).start_date) = w
                THEN Head(acts).distance_m ELSE 0)

\* C27: the ramp warning compares the calendar week containing today with
\* the calendar week immediately before it; two active weeks with an empty
\* week between them give no ramp warning.
C27_RampComparesAdjacentWeeks ==
    insightPc = "done" =>
        LET current == CalendarWeekDistance(activities, CalendarWeek(now))
            previous == CalendarWeekDistance(activities, CalendarWeek(now) - 1)
        IN insights.rampWarning
               <=> previous > 0 /\ (current - previous) * 100 > 15 * previous

(***************************************************************************)
(* The API client: one token refresh at a time                             *)
(***************************************************************************)

\* at most one POST /auth/refresh has not settled, and `refreshing` holds it
AtMostOneRefresh ==
    /\ refreshPosts <= 1
    /\ refreshPosts = 1 <=> refreshing # <<>>

\* a POST /auth/refresh is made only when none is pending
NewRefreshAfterSettled ==
    refreshPosts' > refreshPosts => refreshPosts = 0 /\ refreshing = <<>>

\* the refresh that returns a token sends every request awaiting it again,
\* with that token
ResentWithReturnedToken ==
    RefreshSettle("token") =>
        \A i \in DOMAIN requests :
            requests[i].pc = "waiting" =>
                /\ requests'[i].pc = "sent"
                /\ requests'[i].got = issued'
                /\ requests'[i].auth = issued'

\* every request that gets a 401 while a refresh is pending awaits that
\* refresh
EveryRequestWaits ==
    \A i \in DOMAIN requests :
        ApiRespondError(i, 401) /\ refreshing # <<>> =>
            /\ requests'[i].pc = "waiting"
            /\ refreshing' = refreshing
            /\ refreshPosts' = refreshPosts

\* a request that gets a 401 while a refresh is pending awaits that refresh
\* when it was not sent again before and a refresh token is stored, and is
\* rejected otherwise; in both cases no other POST is made
UnmarkedRequestWaits ==
    \A i \in DOMAIN requests :
        ApiRespondError(i, 401) /\ refreshing # <<>> =>
            /\ requests'[i].pc = IF ~requests[i].retry /\ refreshToken # 0
                                 THEN "waiting" ELSE "rejected"
            /\ refreshing' = refreshing
            /\ refreshPosts' = refreshPosts

\* the refresh that returns no token rejects the requests awaiting it
RejectedWithoutToken ==
    RefreshSettle("empty") \/ RefreshSettle("error") =>
        \A i \in DOMAIN requests :
            requests[i].pc = "waiting" => requests'[i].pc = "rejected"

\* C23: at most one POST /auth/refresh is in flight; every request that
\* receives 401 while a refresh is pending waits on that refresh and is sent
\* again with the token it returns; a new refresh starts only after the
\* previous one has settled.
C23_OneRefreshEveryRequestWaits ==
    /\ []AtMostOneRefresh
    /\ [][NewRefreshAfterSettled]_vars
    /\ [][EveryRequestWaits]_vars
    /\ [][ResentWithReturnedToken]_vars

\* C23: at most one POST /auth/refresh is in flight; a request that receives
\* 401 while a refresh is pending waits on that refresh when it carries no
\* _retry mark and a refresh token is stored, and is rejected otherwise; the
\* requests waiting are sent again with the token the refresh returns, or
\* rejected when it returns none; a new refresh starts only after the
\* previous one has settled.
C23_OneRefreshUnmarkedRequestsWait ==
    /\ []AtMostOneRefresh
    /\ [][NewRefreshAfterSettled]_vars
    /\ [][UnmarkedRequestWaits]_vars
    /\ [][ResentWithReturnedToken]_vars
    /\ [][RejectedWithoutToken]_vars

\* two requests were sent again with the token of one and the same refresh
C23_Witness ==
    /\ Len(requests) >= 2
    /\ requests[1].sends = 2
    /\ requests[2].sends = 2
    /\ requests[1].got # 0
    /\ requests[1].got = requests[2].got
    /\ refreshPosts = 0

(***************************************************************************)
(* The API client: the tokens in memory and in localStorage                *)
(***************************************************************************)

\* no access token is stored, in memory or in localStorage
AccessEmpty == accessToken = 0 /\ lsAccess = 0

\* C24: once clearTokens has run, the access token stays empty, in memory
\* and in localStorage, until the next login stores tokens; a refresh that
\* was in flight when clearTokens ran does not put one back.
C24_AccessStaysEmptyUntilLogin ==
    [][AccessEmpty /\ ~AccessEmpty' => Login]_vars

\* what is kept in memory is what localStorage holds
TokensMirrorStorage ==
    /\ accessToken = lsAccess
    /\ refreshToken = lsRefresh

\* the refresh that returns a token stores it as the access token and leaves
\* the refresh token alone, in memory and in localStorage
RefreshKeepsRefreshToken ==
    RefreshSettle("token") =>
        /\ accessToken' = issued'
        /\ lsAccess' = issued'
        /\ refreshToken' = refreshToken
        /\ lsRefresh' = lsRefresh

\* C25: after any sequence of setTokens, clearTokens and refresh outcomes the
\* access and refresh tokens in memory equal the values in localStorage
\* (empty when the key is absent), and setTokens without a refresh value
\* leaves the stored refresh token unchanged.
C25_MemoryEqualsLocalStorage ==
    []TokensMirrorStorage /\ [][RefreshKeepsRefreshToken]_vars

\* after a login and a refresh that returned a token: a newer access token
\* beside the refresh token of the login, in memory and in localStorage
C25_Witness ==
    /\ refreshing = <<>>
    /\ refreshToken # 0
    /\ lsRefresh = refreshToken
    /\ accessToken > refreshToken
    /\ lsAccess = accessToken

(***************************************************************************)
(* The AI chat page (pages/ai-page.tsx): the ask mutation, the typewriter  *)
(* and the effect that ends the optimistic question/answer pair.           *)
(*                                                                         *)
(* An effect runs after the render of the state change that triggers it,   *)
(* before another event is handled: it is part of the step of that change. *)
(***************************************************************************)

\* questions asked in one behaviour
MaxAsks == 3

\* what the user asks (trimmed, not empty) and what POST /ai/ask answers
ChatQuestions == {<<"h","i">>, <<"g","o">>}
ChatAnswers ==
    {StrEmpty, <<"o">>, <<"o","k">>, <<"r","e","s","t","!">>,
     <<"e","a","s","y"," ","r","u","n">>}

\* res.session_id: none, or the session of the chat
ChatSessionIds == {0, 5}

\* line 300: the typewriter has something left to type
TypewriterRuns(target, typed) == target # <<>> /\ Len(typed) < Len(target)

\* lines 332-333: the completion effect goes on to clear the pair
CompletionDue(target, typed) == target # <<>> /\ Len(typed) >= Len(target)

\* lines 302-303: what the timer puts into liveTyped
TypedNext(target, typed) ==
    SubSeq(target, 1, IF Len(target) < Len(typed) + 2 THEN Len(target)
                      ELSE Len(typed) + 2)

InitAiPage ==
    /\ AiPageIdle
    /\ ProfileIdle
    /\ LabelIdle
    /\ PlanIdle
    /\ ByDayIdle
    /\ distances = <<>>
    /\ times = <<>>
    /\ movingTimeS = 0
    /\ SplitsIdle
    /\ PaceIdle
    /\ ZoneIdle
    /\ WeekIdle
    /\ InsightIdle
    /\ ChartIdle
    /\ ApiIdle
    /\ AiIdle

notAiPage == <<dataVars, splitsVars, paceVars, zoneVars, weekVars,
               insightVars, chartVars, apiVars, aiVars, profileVars,
               labelVars, planVars, byDayVars>>

\* askNow(q) and onMutate, lines 252-269 and 362-366
AskNow(q) ==
    /\ askStatus # "pending"
    /\ asks < MaxAsks
    /\ asks' = asks + 1
    /\ askStatus' = "pending"
    /\ pendingQuestion' = q
    /\ liveTarget' = <<>>
    /\ liveTyped' = <<>>
    /\ queriesStale' = FALSE
    /\ UNCHANGED <<activeSessionId, notAiPage>>

\* onSuccess, lines 270-288; with liveTyped empty the completion effect
\* returns at line 332 or 333
AskSuccess(answer, sessionId) ==
    /\ askStatus = "pending"
    /\ askStatus' = "success"
    /\ activeSessionId' = IF sessionId # 0 /\ activeSessionId = 0
                          THEN sessionId ELSE activeSessionId
    /\ liveTarget' = answer
    /\ liveTyped' = <<>>
    /\ UNCHANGED <<pendingQuestion, queriesStale, asks, notAiPage>>

\* onError, lines 289-293
AskError ==
    /\ askStatus = "pending"
    /\ askStatus' = "error"
    /\ pendingQuestion' = <<>>
    /\ liveTarget' = <<>>
    /\ liveTyped' = <<>>
    /\ UNCHANGED <<queriesStale, activeSessionId, asks, notAiPage>>

\* the timer of the typewriter effect fires, lines 299-306, and then the
\* completion effect runs, lines 331-339
TypewriterTick ==
    /\ TypewriterRuns(liveTarget, liveTyped)
    /\ LET typed == TypedNext(liveTarget, liveTyped)
       IN IF CompletionDue(liveTarget, typed)
          THEN /\ pendingQuestion' = <<>>
               /\ liveTarget' = <<>>
               /\ liveTyped' = <<>>
               /\ queriesStale' = TRUE
          ELSE /\ liveTyped' = typed
               /\ UNCHANGED <<pendingQuestion, liveTarget, queriesStale>>
    /\ UNCHANGED <<askStatus, activeSessionId, asks, notAiPage>>

NextAiPage ==
    \/ \E q \in ChatQuestions : AskNow(q)
    \/ \E answer \in ChatAnswers, sessionId \in ChatSessionIds :
           AskSuccess(answer, sessionId)
    \/ AskError
    \/ TypewriterTick

SpecAiPage == InitAiPage /\ [][NextAiPage]_vars

\* the timer fires; nothing is assumed about the user or the server
SpecAiPageFair == SpecAiPage /\ WF_vars(TypewriterTick)

\* the optimistic pair is gone and the queries were invalidated
OptimisticStateCleared ==
    /\ pendingQuestion = <<>>
    /\ liveTarget = <<>>
    /\ liveTyped = <<>>
    /\ queriesStale

\* C26: after every successful ask, whatever the answer text (an empty
\* answer included), the typewriter ends and pendingQuestion, liveTarget
\* and liveTyped become empty and the queries are invalidated, unless
\* another question is asked first.
C26_OptimisticStateEventuallyCleared ==
    askStatus = "success" ~> (OptimisticStateCleared \/ askStatus = "pending")

(***************************************************************************)
(* pacePerKm and formatPace (lib/analytics.ts, lines 46-66)                *)
(*                                                                         *)
(* A pace is in hundredths of s/km, as PacePerKm gives it: cutting a pace  *)
(* to hundredths changes neither its floor nor its nearest integer.        *)
(***************************************************************************)

\* s.padStart(2, '0')
PadStart2(s) == IF Len(s) < 2 THEN <<"0">> \o s ELSE s

StrNA == <<"n","/","a">>
StrPerKm == <<" ","/","k","m">>

\* Math.floor(secPerKm / 60)
PaceMinutes(pace) == pace \div (60 * 100)

\* Math.round(secPerKm % 60): the nearest integer, halves upward
PaceSeconds(pace) == Rounded(pace % (60 * 100), 100)

\* lines 59-66
FormatPace(pace) ==
    IF pace = 0 THEN StrNA
    ELSE NatToString(PaceMinutes(pace)) \o <<":">>
             \o PadStart2(NatToString(PaceSeconds(pace))) \o StrPerKm

\* runs of 1 km, 5 km and 10 km, and no distance
LabelDistances == {0, 1000, 5000, 10000}
\* moving times up to a minute and around 25 minutes
LabelTimes == 0..60 \cup 1490..1510

InitLabel ==
    /\ labelDistanceM \in LabelDistances
    /\ labelMovingTimeS \in LabelTimes
    /\ labelPc = "start"
    /\ paceLabel = <<>>
    /\ ProfileIdle
    /\ AiPageIdle
    /\ PlanIdle
    /\ ByDayIdle
    /\ distances = <<>>
    /\ times = <<>>
    /\ movingTimeS = 0
    /\ SplitsIdle
    /\ PaceIdle
    /\ ZoneIdle
    /\ WeekIdle
    /\ InsightIdle
    /\ ChartIdle
    /\ ApiIdle
    /\ AiIdle

notLabel == <<dataVars, splitsVars, paceVars, zoneVars, weekVars,
              insightVars, chartVars, apiVars, aiVars, profileVars,
              aiPageVars, planVars, byDayVars>>

\* formatPace(pacePerKm(distance_m, moving_time_s))
FormatPaceLabel ==
    /\ labelPc = "start"
    /\ paceLabel' = FormatPace(PacePerKm(labelDistanceM, labelMovingTimeS))
    /\ labelPc' = "done"
    /\ UNCHANGED <<labelDistanceM, labelMovingTimeS, notLabel>>

NextLabel == FormatPaceLabel

SpecLabel == InitLabel /\ [][NextLabel]_vars

\* the strings 'M:SS /km' with SS from 00 to 59
PaceLabels ==
    {NatToString(m) \o <<":">> \o PadStart2(NatToString(ss)) \o StrPerKm :
        m \in 0..30, ss \in 0..59}

\* C28: formatPace returns 'n/a' for a zero pace (zero distance or zero
\* moving time) and otherwise a string 'M:SS /km' whose seconds field lies
\* between 00 and 59, also where the seconds part rounds up.
C28_SecondsFieldBelowSixty ==
    labelPc = "done" =>
        IF labelDistanceM = 0 \/ labelMovingTimeS = 0
        THEN paceLabel = StrNA
        ELSE paceLabel \in PaceLabels

(***************************************************************************)
(* nextAutoGeneration and autoGenerationCountdown (pages/plan-page.tsx,    *)
(* lines 212-234)                                                          *)
(*                                                                         *)
(* An instant is a number of half hours; instant 0 is 00:00 local time on  *)
(* day 0, Monday 2023-12-18.  Time zone "utc" keeps one offset.  Time zone *)
(* "dst" moves its clocks from 02:00 to 03:00 on Sunday 2024-03-31, day    *)
(* 104, as Europe/Budapest does.  A local time is the number of half hours *)
(* its calendar fields stand for: 48 * day + 2 * hours + minutes / 30.     *)
(***************************************************************************)

HalfHoursPerDay == 24 * 2

\* the instant the clocks of zone "dst" go forward, and by how much
SpringForward == 104 * HalfHoursPerDay + 2 * 2
ClockShift == 1 * 2

\* the local time a Date shows for instant t
LocalTime(zone, t) ==
    IF zone = "dst" /\ t >= SpringForward THEN t + ClockShift ELSE t

\* the instant a Date takes for local time l; a local time the clocks skip
\* is read with the offset in force before the change
InstantOf(zone, l) ==
    IF zone = "dst" /\ l >= SpringForward + ClockShift THEN l - ClockShift
    ELSE l

\* the calendar day, as a day number, and the half hour of the day
LocalDay(zone, t) == LocalTime(zone, t) \div HalfHoursPerDay
LocalHalfHour(zone, t) == LocalTime(zone, t) % HalfHoursPerDay

\* Date.prototype.getHours
GetHours(zone, t) == LocalHalfHour(zone, t) \div 2

\* d.setMinutes(0, 0, 0)
SetMinutesZero(zone, t) ==
    InstantOf(zone, LocalTime(zone, t) - (LocalTime(zone, t) % 2))

\* d.setHours(hour)
SetHours(zone, t, hour) ==
    InstantOf(zone, LocalDay(zone, t) * HalfHoursPerDay + 2 * hour
                        + (LocalTime(zone, t) % 2))

\* d.setDate(...): the Date moves to calendar day `day` and keeps its hours
\* and minutes
SetDay(zone, t, day) ==
    InstantOf(zone, day * HalfHoursPerDay + LocalHalfHour(zone, t))

StrSun == <<"s","u","n">>
StrMon == <<"m","o","n">>
StrTue == <<"t","u","e">>
StrWed == <<"w","e","d">>
StrThu == <<"t","h","u">>
StrFri == <<"f","r","i">>
StrSat == <<"s","a","t">>

\* line 213: String(goal.weekly_plan_generation_day || 'sun').slice(0, 3)
\* .toLowerCase()
DayOf(configured) ==
    LET day == IF configured = <<>> THEN StrSun ELSE configured
    IN ToLowerCase(SubSeq(day, 1, IF Len(day) < 3 THEN Len(day) ELSE 3))

\* lines 216-217: map[day] ?? 0
TargetDow(day) ==
    IF day = StrMon THEN 1 ELSE IF day = StrTue THEN 2
    ELSE IF day = StrWed THEN 3 ELSE IF day = StrThu THEN 4
    ELSE IF day = StrFri THEN 5 ELSE IF day = StrSat THEN 6 ELSE 0

\* line 214: Math.max(0, Math.min(23, Number(hour)))
ClampedHour(hour) == IF hour < 0 THEN 0 ELSE IF hour > 23 THEN 23 ELSE hour

\* lines 213-224
NextAutoGeneration(zone, tick, configuredDay, configuredHour) ==
    LET hour == ClampedHour(configuredHour)
        targetDow == TargetDow(DayOf(configuredDay))
        atHour == SetHours(zone, SetMinutesZero(zone, tick), hour)
        diff == (targetDow - GetDay(LocalDay(zone, tick)) + 7) % 7
        candidate == SetDay(zone, atHour, LocalDay(zone, tick) + diff)
    IN IF candidate <= tick
       THEN SetDay(zone, candidate, LocalDay(zone, candidate) + 7)
       ELSE candidate

\* line 227: deltaMs
CountdownDelta(next, tick) == IF next - tick < 0 THEN 0 ELSE next - tick

\* the configured day: not set, or one of the options of the form
GenerationDays ==
    {StrEmpty, StrSun, StrMon, StrTue, StrWed, StrThu, StrFri, StrSat}
GenerationHours == {0, 2, 3, 12, 23}

\* the half hours of Saturday 2024-03-23 to Tuesday 2024-04-02
PlanTicks == (96 * HalfHoursPerDay)..(107 * HalfHoursPerDay - 1)

InitPlan ==
    /\ timeZone \in {"utc", "dst"}
    /\ nowTick \in PlanTicks
    /\ generationDay \in GenerationDays
    /\ generationHour \in GenerationHours
    /\ planPc = "start"
    /\ nextAutoGeneration = 0
    /\ autoGenerationCountdown = 0
    /\ ProfileIdle
    /\ AiPageIdle
    /\ LabelIdle
    /\ ByDayIdle
    /\ distances = <<>>
    /\ times = <<>>
    /\ movingTimeS = 0
    /\ SplitsIdle
    /\ PaceIdle
    /\ ZoneIdle
    /\ WeekIdle
    /\ InsightIdle
    /\ ChartIdle
    /\ ApiIdle
    /\ AiIdle

notPlan == <<dataVars, splitsVars, paceVars, zoneVars, weekVars,
             insightVars, chartVars, apiVars, aiVars, profileVars,
             aiPageVars, labelVars, byDayVars>>

\* the two useMemo callbacks of one render
PlanCountdown ==
    /\ planPc = "start"
    /\ nextAutoGeneration' =
           NextAutoGeneration(timeZone, nowTick, generationDay, generationHour)
    /\ autoGenerationCountdown' = CountdownDelta(nextAutoGeneration', nowTick)
    /\ planPc' = "done"
    /\ UNCHANGED <<timeZone, nowTick, generationDay, generationHour, notPlan>>

NextPlan == PlanCountdown

SpecPlan == InitPlan /\ [][NextPlan]_vars

SevenDaysOfHalfHours == 7 * HalfHoursPerDay

\* C29: for every current time and every configured day and hour the next
\* auto-generation instant is strictly later than now, at most 7 days after
\* now, on the configured weekday and at minute 0 of the configured hour;
\* the countdown is never negative and never above 7 days.
C29_NextGenerationWithinAWeek ==
    planPc = "done" =>
        /\ nextAutoGeneration > nowTick
        /\ nextAutoGeneration - nowTick <= SevenDaysOfHalfHours
        /\ GetDay(LocalDay(timeZone, nextAutoGeneration))
              = TargetDow(DayOf(generationDay))
        /\ LocalHalfHour(timeZone, nextAutoGeneration) = 2 * generationHour
        /\ autoGenerationCountdown >= 0
        /\ autoGenerationCountdown <= SevenDaysOfHalfHours

(***************************************************************************)
(* getWeekRange, dayKey and groupActivitiesByDay (lib/analytics.ts, lines  *)
(* 103-132)                                                                *)
(*                                                                         *)
(* An instant is a number of hours since 2023-12-18T00:00Z; the local      *)
(* clock is utcOffset hours ahead of UTC.  A key 'YYYY-MM-DD' is the       *)
(* number of its day, day 0 being 2023-12-18.                              *)
(***************************************************************************)

HoursPerDay == 24

\* the local calendar day of instant t
LocalDayAt(offset, t) == (t + offset) \div HoursPerDay

\* the instant of 00:00 local time on a calendar day
LocalMidnight(offset, day) == day * HoursPerDay - offset

\* getWeekRange(date), lines 103-114; end is the last hour of the Sunday
WeekRangeAt(offset, t) ==
    LET week == GetWeekRange(LocalDayAt(offset, t))
    IN [start |-> LocalMidnight(offset, week.start),
        end   |-> LocalMidnight(offset, week.end) + (HoursPerDay - 1),
        days  |-> [i \in 1..7 |-> LocalMidnight(offset, week.start + (i - 1))]]

\* dayKey, lines 116-118: date.toISOString().slice(0, 10), the UTC day
DayKey(t) == t \div HoursPerDay

\* line 125
InWeek(a, range) == a.start_date >= range.start /\ a.start_date <= range.end

\* groupActivitiesByDay, lines 120-132
GroupActivitiesByDay(acts, range) ==
    LET inRange == SelectSeq(acts, LAMBDA a : InWeek(a, range))
        keys == {DayKey(range.days[i]) : i \in 1..7}
                  \cup {DayKey(inRange[k].start_date) : k \in DOMAIN inRange}
    IN [key \in keys |->
           SelectSeq(inRange, LAMBDA a : DayKey(a.start_date) = key)]

\* New York in winter, UTC, Budapest in summer
UtcOffsets == {-5, 0, 2}

\* Wednesday 2024-02-14T12:00Z and Sunday 2024-02-18T23:00Z
ByDayTodays == {58 * HoursPerDay + 12, 62 * HoursPerDay + 23}

\* starts at 01:00Z, 10:00Z and 22:00Z on Sun 02-11, Mon 02-12, Thu 02-15,
\* Sun 02-18 and Mon 02-19
ByDayStarts ==
    {day * HoursPerDay + hour : day \in {55, 56, 59, 62, 63},
                                hour \in {1, 10, 22}}

InitByDay ==
    /\ utcOffset \in UtcOffsets
    /\ today \in ByDayTodays
    /\ \E n \in 0..MaxActs :
          \E starts \in [1..n -> ByDayStarts] :
              weekActivities =
                  [k \in 1..n |-> [id |-> k, start_date |-> starts[k]]]
    /\ byDayPc = "start"
    /\ weekRange = <<>>
    /\ byDay = <<>>
    /\ ProfileIdle
    /\ AiPageIdle
    /\ LabelIdle
    /\ PlanIdle
    /\ distances = <<>>
    /\ times = <<>>
    /\ movingTimeS = 0
    /\ SplitsIdle
    /\ PaceIdle
    /\ ZoneIdle
    /\ WeekIdle
    /\ InsightIdle
    /\ ChartIdle
    /\ ApiIdle
    /\ AiIdle

notByDay == <<dataVars, splitsVars, paceVars, zoneVars, weekVars,
              insightVars, chartVars, apiVars, aiVars, profileVars,
              aiPageVars, labelVars, planVars>>

\* groupActivitiesByDay(data, getWeekRange(new Date()))
GroupByDay ==
    /\ byDayPc = "start"
    /\ weekRange' = WeekRangeAt(utcOffset, today)
    /\ byDay' = GroupActivitiesByDay(weekActivities, weekRange')
    /\ byDayPc' = "done"
    /\ UNCHANGED <<utcOffset, today, weekActivities, notByDay>>

NextByDay == GroupByDay

SpecByDay == InitByDay /\ [][NextByDay]_vars

\* the key made for the local calendar day activity a started on
KeyOfLocalDay(a) ==
    DayKey(weekRange.days[LocalDayAt(utcOffset, a.start_date)
                              - LocalDayAt(utcOffset, weekRange.start) + 1])

\* C30: every activity that starts inside the week range is filed under
\* exactly one of the 7 keys made for range.days, the key of the local
\* calendar day it started on, whatever the offset of the time zone; there
\* is never an eighth key.
C30_FiledUnderLocalDay ==
    byDayPc = "done" =>
        /\ Cardinality(DOMAIN byDay) = 7
        /\ \A k \in DOMAIN weekActivities :
               InWeek(weekActivities[k], weekRange) =>
                   \A key \in DOMAIN byDay :
                       (\E j \in DOMAIN byDay[key] :
                            byDay[key][j] = weekActivities[k])
                         <=> key = KeyOfLocalDay(weekActivities[k])

====
